---- MODULE Spec2Model ----
(***************************************************************************)
(* Model of the .npb bank core of nam-player-tools: dimehead_bank.py       *)
(* (load_bank, save_bank, save_bank_as), nam_config_tool.py (NPBBank) and  *)
(* the file system they act on (Spec); the JSON pointer functions of the   *)
(* CLI tool (PointerSpec), its coerce_value (CoerceSpec), the GUI's        *)
(* _next_version_path (VersionSpec), Bank.diff_config (DiffSpec), the      *)
(* command-line entry point main with its subcommands (CliSpec) and the    *)
(* GUI's open, edit, save-new-version and overwrite actions (GuiSpec).     *)
(*                                                                         *)
(* Text is modelled as a sequence of characters (one-character strings);   *)
(* a serialized JSON document is the sequence of its lexical tokens        *)
(* (punctuation, white space, digits, string characters, literals).        *)
(***************************************************************************)
EXTENDS Integers, Sequences, FiniteSets, TLC

\* ------------------------------------------------------------------ bounds
\* Longest source archive (number of tar members) a run starts from.
MaxEntries == 2
\* Saves (save_bank, save_bank_as, replace_config) started in one run.
MaxSaves == 1

\* ------------------------------------------------------------ JSON values
\* A configuration tree: tagged nodes, as json.loads builds them.
JNull == [t |-> "null", v |-> "null"]
JBool(b) == [t |-> "bool", v |-> b]
JInt(n) == [t |-> "int", v |-> n]
\* A float with integer part n and one fractional digit d (its repr is n.d).
JFloat(n, d) == [t |-> "float", v |-> <<n, d>>]
JStr(s) == [t |-> "str", v |-> s]
JList(s) == [t |-> "seq", v |-> s]
JDict(f) == [t |-> "map", v |-> f]

\* Keys of the configuration document the model uses, as character sequences.
kName == <<"n", "a", "m", "e">>
kPresets == <<"p", "r", "e", "s", "e", "t", "s">>
kConfigVersion ==
    <<"c", "o", "n", "f", "i", "g", "V", "e", "r", "s", "i", "o", "n">>
kLedColor == <<"l", "e", "d", "C", "o", "l", "o", "r">>
\* The order in which a mapping's keys are written (a dict keeps one order).
KeyOrder == <<kConfigVersion, kLedColor, kName, kPresets>>

DigitChars == <<"0", "1", "2", "3", "4", "5", "6", "7", "8", "9">>
Digits == {DigitChars[i] : i \in 1..10}
DigitVal(c) == (CHOOSE i \in 1..10 : DigitChars[i] = c) - 1

RECURSIVE IntRepr(_)
\* int.__repr__ as json.dumps writes an integer: decimal digits, '-' first.
IntRepr(n) ==
    IF n < 0 THEN <<"-">> \o IntRepr(-n)
    ELSE IF n < 10 THEN <<DigitChars[n + 1]>>
    ELSE IntRepr(n \div 10) \o <<DigitChars[(n % 10) + 1]>>

\* Mutant of EscapeChars: the characters are written as they are.
EscapeCharsNone(s) == s

RECURSIVE EscapeChars(_)
\* json string escaping: '"' and '\' are written behind a backslash.
EscapeChars(s) ==
    IF s = <<>> THEN <<>>
    ELSE (IF Head(s) \in {"\"", "\\"} THEN <<"\\", Head(s)>> ELSE <<Head(s)>>)
         \o EscapeChars(Tail(s))

QuoteStr(s) == <<"\"">> \o EscapeChars(s) \o <<"\"">>

RECURSIVE Repeat(_, _)
Repeat(tok, n) == IF n = 0 THEN <<>> ELSE <<tok>> \o Repeat(tok, n - 1)

\* The newline and indentation json.dumps(indent=4) writes at nesting `level`;
\* nothing without indent. "    " is one indentation step.
NewlineIndent(indent, level) ==
    IF indent THEN <<"\n">> \o Repeat("    ", level) ELSE <<>>

\* Between two items: ',' then newline+indent, or ', ' without indent.
ItemSeparator(indent, level) ==
    IF indent THEN <<",">> \o NewlineIndent(indent, level) ELSE <<",", " ">>

RECURSIVE DumpsAt(_, _, _), DumpItems(_, _, _, _), DumpMembers(_, _, _, _)
DumpItems(items, i, indent, level) ==
    IF i > Len(items) THEN <<>>
    ELSE (IF i > 1 THEN ItemSeparator(indent, level) ELSE <<>>)
         \o DumpsAt(items[i], indent, level)
         \o DumpItems(items, i + 1, indent, level)

DumpMembers(f, keys, indent, level) ==
    IF keys = <<>> THEN <<>>
    ELSE QuoteStr(Head(keys)) \o <<":", " ">>
         \o DumpsAt(f[Head(keys)], indent, level)
         \o (IF Len(keys) > 1 THEN ItemSeparator(indent, level) ELSE <<>>)
         \o DumpMembers(f, Tail(keys), indent, level)

DumpsAt(o, indent, level) ==
    CASE o.t = "null" -> <<"null">>
      [] o.t = "bool" -> IF o.v THEN <<"true">> ELSE <<"false">>
      [] o.t = "int" -> IntRepr(o.v)
      [] o.t = "float" -> IntRepr(o.v[1]) \o <<".">> \o <<DigitChars[o.v[2] + 1]>>
      [] o.t = "str" -> QuoteStr(o.v)
      [] o.t = "seq" ->
            IF o.v = <<>> THEN <<"[", "]">>
            ELSE <<"[">> \o NewlineIndent(indent, level + 1)
                 \o DumpItems(o.v, 1, indent, level + 1)
                 \o NewlineIndent(indent, level) \o <<"]">>
      [] o.t = "map" ->
            IF DOMAIN o.v = {} THEN <<"{", "}">>
            ELSE <<"{">> \o NewlineIndent(indent, level + 1)
                 \o DumpMembers(o.v, SelectSeq(KeyOrder, LAMBDA k : k \in DOMAIN o.v),
                                indent, level + 1)
                 \o NewlineIndent(indent, level) \o <<"}">>

\* json.dumps(obj, indent=4) when indent, json.dumps(obj) otherwise.
Dumps(obj, indent) == DumpsAt(obj, indent, 0)

\* ----------------------------------------------------------- json.loads
Whitespace == {" ", "\n", "    "}
ParseFail == [ok |-> FALSE, val |-> JNull, pos |-> 0]
Parsed(val, pos) == [ok |-> TRUE, val |-> val, pos |-> pos]

RECURSIVE SkipWs(_, _)
SkipWs(ts, i) ==
    IF i <= Len(ts) /\ ts[i] \in Whitespace THEN SkipWs(ts, i + 1) ELSE i

RECURSIVE ScanDigits(_, _, _)
\* Reads digits from position i on: the number read so far and the next position.
ScanDigits(ts, i, acc) ==
    IF i <= Len(ts) /\ ts[i] \in Digits
    THEN ScanDigits(ts, i + 1, acc * 10 + DigitVal(ts[i]))
    ELSE <<acc, i>>

ParseNumber(ts, i) ==
    LET neg == ts[i] = "-"
        j == IF neg THEN i + 1 ELSE i
        ip == ScanDigits(ts, j, 0)
    IN  IF ip[2] = j THEN ParseFail
        ELSE IF ip[2] + 1 <= Len(ts) /\ ts[ip[2]] = "." /\ ts[ip[2] + 1] \in Digits
        THEN Parsed(JFloat(IF neg THEN -ip[1] ELSE ip[1], DigitVal(ts[ip[2] + 1])),
                    ip[2] + 2)
        ELSE Parsed(JInt(IF neg THEN -ip[1] ELSE ip[1]), ip[2])

RECURSIVE ScanString(_, _, _)
\* Position i is behind the opening quote: reads to the closing quote.
ScanString(ts, i, acc) ==
    IF i > Len(ts) THEN ParseFail
    ELSE IF ts[i] = "\"" THEN Parsed(JStr(acc), i + 1)
    ELSE IF ts[i] = "\\"
    THEN IF i + 1 <= Len(ts) /\ ts[i + 1] \in {"\"", "\\"}
         THEN ScanString(ts, i + 2, Append(acc, ts[i + 1]))
         ELSE ParseFail
    ELSE ScanString(ts, i + 1, Append(acc, ts[i]))

RECURSIVE ParseValue(_, _), ParseItems(_, _, _), ParseMembers(_, _, _)
\* Position i is behind '[' or ',': reads the items up to and with ']'.
ParseItems(ts, i, acc) ==
    LET r == ParseValue(ts, SkipWs(ts, i))
        j == SkipWs(ts, r.pos)
    IN  IF ~r.ok \/ j > Len(ts) THEN ParseFail
        ELSE IF ts[j] = "]" THEN Parsed(JList(Append(acc, r.val)), j + 1)
        ELSE IF ts[j] = "," THEN ParseItems(ts, j + 1, Append(acc, r.val))
        ELSE ParseFail

\* Position i is behind '{' or ',': reads "key": value pairs up to and with '}'.
\* A key read twice keeps its last value.
ParseMembers(ts, i, acc) ==
    LET k == SkipWs(ts, i)
        key == IF k <= Len(ts) /\ ts[k] = "\"" THEN ScanString(ts, k + 1, <<>>)
               ELSE ParseFail
        c == SkipWs(ts, key.pos)
        r == IF key.ok /\ c <= Len(ts) /\ ts[c] = ":"
             THEN ParseValue(ts, SkipWs(ts, c + 1)) ELSE ParseFail
        j == SkipWs(ts, r.pos)
        acc2 == [x \in DOMAIN acc \cup {key.val.v} |->
                    IF x = key.val.v THEN r.val ELSE acc[x]]
    IN  IF ~r.ok \/ j > Len(ts) THEN ParseFail
        ELSE IF ts[j] = "}" THEN Parsed(JDict(acc2), j + 1)
        ELSE IF ts[j] = "," THEN ParseMembers(ts, j + 1, acc2)
        ELSE ParseFail

ParseValue(ts, i) ==
    IF i > Len(ts) THEN ParseFail
    ELSE CASE ts[i] = "null" -> Parsed(JNull, i + 1)
           [] ts[i] = "true" -> Parsed(JBool(TRUE), i + 1)
           [] ts[i] = "false" -> Parsed(JBool(FALSE), i + 1)
           [] ts[i] = "\"" -> ScanString(ts, i + 1, <<>>)
           [] ts[i] \in Digits \cup {"-"} -> ParseNumber(ts, i)
           [] ts[i] = "[" ->
                LET j == SkipWs(ts, i + 1)
                IN  IF j <= Len(ts) /\ ts[j] = "]" THEN Parsed(JList(<<>>), j + 1)
                    ELSE ParseItems(ts, i + 1, <<>>)
           [] ts[i] = "{" ->
                LET j == SkipWs(ts, i + 1)
                IN  IF j <= Len(ts) /\ ts[j] = "}" THEN Parsed(JDict(<<>>), j + 1)
                    ELSE ParseMembers(ts, i + 1, <<>>)
           [] OTHER -> ParseFail

\* json.loads: the whole text must be one value; .ok is FALSE for a decode error.
Loads(ts) ==
    LET r == ParseValue(ts, SkipWs(ts, 1))
    IN  IF r.ok /\ SkipWs(ts, r.pos) = Len(ts) + 1 THEN r ELSE ParseFail

\* -------------------------------------------------------- archive members
\* A member name is a sequence of characters; a run of characters that starts
\* with neither '.' nor '/' is written as one word ("config.json", "a.nam").
CONFIG_NAME == <<"config.json">>
\* f"./{CONFIG_NAME}"
DotSlashConfigName == <<".", "/">> \o CONFIG_NAME

RECURSIVE lstrip(_, _)
\* str.lstrip(chars): drops every leading character that is in chars.
lstrip(name, chars) ==
    IF name # <<>> /\ Head(name) \in chars THEN lstrip(Tail(name), chars) ELSE name

\* Mutant of IsConfigMember: only the canonical name is taken for the entry.
IsConfigMemberCanonicalOnly(m) == m.name = DotSlashConfigName

\* member.name.lstrip('./') == CONFIG_NAME: the member the rewrite skips and
\* load_bank leaves out of the assets.
IsConfigMember(m) == lstrip(m.name, {".", "/"}) = CONFIG_NAME

\* A tar member: its TarInfo (name, type, mode, size) and its data.
Member(name, type, mode, data) ==
    [name |-> name, type |-> type, mode |-> mode, size |-> Len(data), data |-> data]

\* TarInfo(name=...) of the new configuration entry: a regular file with
\* tarfile's default mode (0o644), info.size = len(data).
ConfigInfo(data) ==
    [name |-> DotSlashConfigName, type |-> "file", mode |-> "644",
     size |-> Len(data), data |-> data]

\* tf_out.addfile(member, extracted): the header is the member's TarInfo; the
\* data are member.size bytes of extracted, none when the member is no file.
CopyMember(m) ==
    [name |-> m.name, type |-> m.type, mode |-> m.mode, size |-> m.size,
     data |-> IF m.type = "file" THEN SubSeq(m.data, 1, m.size) ELSE <<>>]

RECURSIVE CopyMembers(_)
\* The loop over tf_in.getmembers(): skips the configuration members, copies
\* the others in order.
CopyMembers(members) ==
    IF members = <<>> THEN <<>>
    ELSE (IF IsConfigMember(Head(members)) THEN <<>> ELSE <<CopyMember(Head(members))>>)
         \o CopyMembers(Tail(members))

\* The archive the rewrite builds: the copied members, then the new entry
\* holding json.dumps(config, indent=4).
Rewrite(members, config) ==
    Append(CopyMembers(members), ConfigInfo(Dumps(config, TRUE)))

\* TarFile.getmember(name): the last member of that name; <<>> for KeyError.
GetMember(members, name) ==
    LET hits == {i \in 1..Len(members) : members[i].name = name}
    IN  IF hits = {} THEN <<>>
        ELSE <<members[CHOOSE i \in hits : \A j \in hits : j <= i]>>

\* The member both readers take as the configuration: './config.json', else
\* 'config.json'; <<>> when the archive has neither.
FindConfig(members) ==
    IF GetMember(members, DotSlashConfigName) # <<>>
    THEN GetMember(members, DotSlashConfigName)
    ELSE GetMember(members, CONFIG_NAME)

Asset(m) == [name |-> m.name, size |-> m.size, type |-> m.type]

RECURSIVE Assets(_)
Assets(members) ==
    IF members = <<>> THEN <<>>
    ELSE (IF IsConfigMember(Head(members)) THEN <<>> ELSE <<Asset(Head(members))>>)
         \o Assets(Tail(members))

\* ----------------------------------------------------------------- files
\* A file is absent, a gzip-tar archive ("tar") or bytes that are no complete
\* archive ("junk": an empty or partly written file).
Absent == [kind |-> "absent", members |-> <<>>]
Tar(members) == [kind |-> "tar", members |-> members]
Junk == [kind |-> "junk", members |-> <<>>]
Exists(f) == f.kind # "absent"

\* Paths: the bank files amp.npb (version 0) and amp_v001.npb, the '.bak'
\* sibling of each, and the temporary files mkstemp names (one per save).
NpbPath(v) == <<"npb", v>>
NpbPaths == {NpbPath(0), NpbPath(1)}
BakOf(p) == <<"bak", p[2]>>
TmpPath(k) == <<"tmp", k>>
TmpPaths == {TmpPath(k) : k \in 1..MaxSaves}
Paths == NpbPaths \cup {BakOf(p) : p \in NpbPaths} \cup TmpPaths
NoPath == <<"none", 0>>

\* ---------------------------------------------------------- configurations
Preset(name, led) == JDict((kName :> JStr(name)) @@ (kLedColor :> led))
ConfigA ==
    JDict((kConfigVersion :> JInt(12)) @@ (kPresets :> JList(<<Preset(<<"A">>, JInt(255))>>)))
ConfigB ==
    JDict((kConfigVersion :> JFloat(1, 5))
          @@ (kLedColor :> JBool(TRUE))
          @@ (kPresets :> JList(<<Preset(<<"B", "\"">>, JNull), JInt(-7), JList(<<>>)>>)))
ConfigPool == {ConfigA, ConfigB}

\* Members a source archive is made of: the configuration under both names,
\* a file whose name only begins like it, a model file and a directory.
MemberPool ==
    { Member(CONFIG_NAME, "file", "600", Dumps(ConfigA, FALSE)),
      Member(DotSlashConfigName, "file", "644", Dumps(ConfigB, TRUE)),
      Member(<<".", "config.json">>, "file", "640", <<"x">>),
      Member(<<".", "/", "a.nam">>, "file", "755", <<"y", "y">>),
      Member(<<".", "/", "d">>, "dir", "700", <<>>) }

RECURSIVE SeqsUpTo(_, _)
\* The sequences of at most n different elements of S.
SeqsUpTo(S, n) ==
    IF n = 0 THEN {<<>>}
    ELSE LET shorter == SeqsUpTo(S, n - 1)
         IN  shorter \cup UNION {{Append(s, e) : e \in S \ {s[i] : i \in 1..Len(s)}} :
                                    s \in shorter}

ArchivePool == SeqsUpTo(MemberPool, MaxEntries) \ {<<>>}

\* ------------------------------------------------------------------ state
VARIABLES
    fs,       \* the file system: path -> file
    bank,     \* the Bank document the caller holds (NoBank before a load)
    pc,       \* where the running save stands: "idle" when none is running,
              \* "done" when one has just returned to its caller
    op,       \* the running save: its arguments and temp file, the step that
              \* raised ("no": none), what the finally clause did to the temp
              \* file, and (history) the Bank as it was when the save was called
    pre,      \* history: the file system when the running save was called
    nsaves    \* saves started so far

vars == <<fs, bank, pc, op, pre, nsaves>>

NoBank == [path |-> NoPath, config |-> JNull, assets |-> <<>>, original_config_json |-> <<>>]
NoOp ==
    [name |-> "none", src |-> NoPath, dest |-> NoPath, tmp |-> NoPath,
     backup |-> FALSE, config |-> JNull, raised |-> "no", cleanup |-> "pending",
     before |-> NoBank]

Init ==
    /\ fs \in {[p \in Paths |-> IF p = NpbPath(0) THEN Tar(a) ELSE Absent] : a \in ArchivePool}
    /\ bank = NoBank
    /\ pc = "idle"
    /\ op = NoOp
    /\ pre = fs
    /\ nsaves = 0

\* ------------------------------------------------------------- load_bank
\* load_bank succeeds: the file is an archive, it has a configuration member
\* that is a regular file, and its text is a JSON document.
LoadOk(f) ==
    /\ f.kind = "tar"
    /\ FindConfig(f.members) # <<>>
    /\ FindConfig(f.members)[1].type = "file"
    /\ Loads(FindConfig(f.members)[1].data).ok

\* The Bank load_bank returns.
LoadedBank(path, f) ==
    LET raw == FindConfig(f.members)[1].data
    IN  [path |-> path, config |-> Loads(raw).val, assets |-> Assets(f.members),
         original_config_json |-> raw]

\* read_config of the CLI class: the parsed configuration member.
read_config(f) == Loads(FindConfig(f.members)[1].data).val

\* load_bank returns a Bank, which the caller keeps; when it raises the
\* caller keeps what it had.
load_bank(path) ==
    /\ pc = "idle"
    /\ nsaves < MaxSaves
    /\ LoadOk(fs[path])
    /\ bank' = LoadedBank(path, fs[path])
    /\ UNCHANGED <<fs, pc, op, pre, nsaves>>

\* The caller edits the live configuration tree in place.
EditConfig(c) ==
    /\ pc = "idle"
    /\ nsaves < MaxSaves
    /\ bank # NoBank
    /\ c # bank.config
    /\ bank' = [bank EXCEPT !.config = c]
    /\ UNCHANGED <<fs, pc, op, pre, nsaves>>

\* ------------------------------------------------------------ the saves
\* tempfile.mkstemp: a name no file has had yet, a new one for every save.
MkstempPath == TmpPath(nsaves + 1)

\* mkstemp creates the temporary file, empty, and the save begins.
Begin(name, src, dest, backup, config) ==
    /\ pc = "idle"
    /\ nsaves < MaxSaves
    /\ op' = [name |-> name, src |-> src, dest |-> dest, tmp |-> MkstempPath,
              backup |-> backup, config |-> config, raised |-> "no",
              cleanup |-> "pending", before |-> bank]
    /\ fs' = [fs EXCEPT ![MkstempPath] = Junk]
    /\ pc' = "build"
    /\ pre' = fs
    /\ nsaves' = nsaves + 1
    /\ UNCHANGED bank

save_bank(backup) ==
    /\ bank # NoBank
    /\ Begin("save_bank", bank.path, bank.path, backup, bank.config)

save_bank_as(dest_path, backup_source) ==
    /\ bank # NoBank
    /\ Exists(fs[bank.path])
    /\ Begin("save_bank_as", bank.path, dest_path, backup_source, bank.config)

\* NPBBank(path).replace_config(new_config): the constructor wants a file.
replace_config(path, new_config) ==
    /\ Exists(fs[path])
    /\ Begin("replace_config", path, path, TRUE, new_config)

\* Mutant of PcAfter: save_bank refreshes original_config_json before it
\* replaces the file.
PcAfterRefreshFirst(name, step) ==
    CASE step = "build" -> IF name = "save_bank_as" THEN "replace" ELSE "backup"
      [] step = "backup" ->
            IF name = "save_bank_as" THEN "finally"
            ELSE IF name = "save_bank" THEN "refresh" ELSE "replace"
      [] step = "refresh" -> "replace"
      [] step = "replace" -> IF name = "save_bank_as" THEN "backup" ELSE "finally"

\* Mutant of PcAfter: every save replaces first and backs up afterwards.
PcAfterReplaceFirst(name, step) ==
    CASE step = "build" -> "replace"
      [] step = "replace" -> "backup"
      [] step = "backup" -> IF name = "save_bank" THEN "refresh" ELSE "finally"
      [] step = "refresh" -> "finally"

\* The statement that follows `step`: save_bank and replace_config back up and
\* then replace; save_bank_as replaces and then backs up.
PcAfter(name, step) ==
    CASE step = "build" -> IF name = "save_bank_as" THEN "replace" ELSE "backup"
      [] step = "backup" -> IF name = "save_bank_as" THEN "finally" ELSE "replace"
      [] step = "replace" ->
            IF name = "save_bank_as" THEN "backup"
            ELSE IF name = "save_bank" THEN "refresh" ELSE "finally"
      [] step = "refresh" -> "finally"

\* Mutant of BuildTarget: the new archive is written over the bank file itself.
BuildTargetInPlace(o) == o.dest

\* The file the `with` block writes the new archive to.
BuildTarget(o) == o.tmp

\* The configuration the save serializes.
SavedConfig == IF op.name = "replace_config" THEN op.config ELSE bank.config

\* Mutant of Raise: the exception leaves the call without the finally clause.
RaiseWithoutFinally ==
    /\ op' = [op EXCEPT !.raised = pc]
    /\ pc' = "done"

\* An exception leaves the try block from the step at pc.
Raise == /\ op' = [op EXCEPT !.raised = pc]
         /\ pc' = "finally"

Failed(o) == o.raised # "no"

\* The `with` block: every member copied, the new entry added, both closed.
Build ==
    /\ pc = "build"
    /\ fs[op.src].kind = "tar"
    /\ fs' = [fs EXCEPT ![BuildTarget(op)] = Tar(Rewrite(fs[op.src].members, SavedConfig))]
    /\ pc' = PcAfter(op.name, "build")
    /\ UNCHANGED <<bank, op, pre, nsaves>>

\* The `with` block raises (opening the source, copying a member, writing the
\* entry): the temp file is left partly written.
BuildFails ==
    /\ pc = "build"
    /\ fs' = [fs EXCEPT ![BuildTarget(op)] = Junk]
    /\ Raise
    /\ UNCHANGED <<bank, pre, nsaves>>

\* `backup and not os.path.exists(path + '.bak')`
BackupWanted(f, o) == o.backup /\ ~Exists(f[BakOf(o.src)])

\* shutil.copy2(path, path + '.bak')
BackupCopy ==
    /\ pc = "backup"
    /\ BackupWanted(fs, op)
    /\ fs' = [fs EXCEPT ![BakOf(op.src)] = fs[op.src]]
    /\ pc' = PcAfter(op.name, "backup")
    /\ UNCHANGED <<bank, op, pre, nsaves>>

\* copy2 raises: before it created the '.bak' file, or with part of it written.
BackupCopyFails(created) ==
    /\ pc = "backup"
    /\ BackupWanted(fs, op)
    /\ fs' = [fs EXCEPT ![BakOf(op.src)] = IF created THEN Junk ELSE Absent]
    /\ Raise
    /\ UNCHANGED <<bank, pre, nsaves>>

BackupSkip ==
    /\ pc = "backup"
    /\ ~BackupWanted(fs, op)
    /\ pc' = PcAfter(op.name, "backup")
    /\ UNCHANGED <<fs, bank, op, pre, nsaves>>

\* os.replace(tmp_path, path): the temp file takes the place of dest, atomically.
Replace ==
    /\ pc = "replace"
    /\ fs' = [fs EXCEPT ![op.dest] = fs[op.tmp], ![op.tmp] = Absent]
    /\ pc' = PcAfter(op.name, "replace")
    /\ UNCHANGED <<bank, op, pre, nsaves>>

ReplaceFails ==
    /\ pc = "replace"
    /\ Raise
    /\ UNCHANGED <<fs, bank, pre, nsaves>>

\* bank.original_config_json = json.dumps(bank.config)
Refresh ==
    /\ pc = "refresh"
    /\ bank' = [bank EXCEPT !.original_config_json = Dumps(bank.config, FALSE)]
    /\ pc' = PcAfter(op.name, "refresh")
    /\ UNCHANGED <<fs, op, pre, nsaves>>

\* The end of the finally clause: the call returns, or raises when Failed(op).
Return(cleanup) ==
    /\ pc' = "done"
    /\ op' = [op EXCEPT !.cleanup = cleanup]
    /\ UNCHANGED <<bank, pre, nsaves>>

\* os.path.exists(tmp_path) and os.remove(tmp_path) succeeds.
RemoveTmp ==
    /\ pc = "finally"
    /\ Exists(fs[op.tmp])
    /\ fs' = [fs EXCEPT ![op.tmp] = Absent]
    /\ Return("removed")

\* os.remove raises OSError, which the finally clause ignores.
RemoveTmpFails ==
    /\ pc = "finally"
    /\ Exists(fs[op.tmp])
    /\ fs' = fs
    /\ Return("remove_failed")

\* The temp file is gone already (os.replace moved it).
NoTmpLeft ==
    /\ pc = "finally"
    /\ ~Exists(fs[op.tmp])
    /\ fs' = fs
    /\ Return("nothing")

\* The caller goes on after the call; the history of the call is dropped.
Continue ==
    /\ pc = "done"
    /\ pc' = "idle"
    /\ op' = NoOp
    /\ pre' = fs
    /\ UNCHANGED <<fs, bank, nsaves>>

Next ==
    \/ \E p \in NpbPaths : load_bank(p)
    \/ \E c \in ConfigPool : EditConfig(c)
    \/ \E b \in BOOLEAN : save_bank(b)
    \/ \E d \in NpbPaths, b \in BOOLEAN : save_bank_as(d, b)
    \/ \E p \in NpbPaths, c \in ConfigPool : replace_config(p, c)
    \/ Build
    \/ BuildFails
    \/ BackupCopy
    \/ \E created \in BOOLEAN : BackupCopyFails(created)
    \/ BackupSkip
    \/ Replace
    \/ ReplaceFails
    \/ Refresh
    \/ RemoveTmp
    \/ RemoveTmpFails
    \/ NoTmpLeft
    \/ Continue

Spec == Init /\ [][Next]_vars

\* ------------------------------------------- JSON pointers (the CLI tool)
\* The outcome of a pointer call: the value returned, or the exception raised.
Ok(val) == [kind |-> "ok", val |-> val]
\* Mutant of ValueError: the resolution error is raised in its place.
ValueErrorAsKeyError == [kind |-> "KeyError", val |-> JNull]
ValueError == [kind |-> "ValueError", val |-> JNull]
KeyError == [kind |-> "KeyError", val |-> JNull]

\* str.startswith(c) for a one-character c.
startswith(s, c) == s # <<>> /\ Head(s) = c

RECURSIVE split(_, _)
\* str.split(sep): the pieces of s between the occurrences of sep.
split(s, sep) ==
    IF \A i \in 1..Len(s) : s[i] # sep THEN <<s>>
    ELSE LET i == CHOOSE k \in 1..Len(s) : s[k] = sep /\ \A j \in 1..(k - 1) : s[j] # sep
         IN  <<SubSeq(s, 1, i - 1)>> \o split(SubSeq(s, i + 1, Len(s)), sep)

RECURSIVE replace(_, _, _)
\* str.replace(old, new) for a two-character old: left to right, no overlap.
replace(s, old, new) ==
    IF Len(s) < 2 THEN s
    ELSE IF <<s[1], s[2]>> = old THEN new \o replace(SubSeq(s, 3, Len(s)), old, new)
    ELSE <<s[1]>> \o replace(Tail(s), old, new)

\* parts = [p.replace('~1','/').replace('~0','~') for p in pointer.split('/')[1:]]
Parts(pointer) ==
    LET pieces == split(pointer, "/")
    IN  [i \in 1..(Len(pieces) - 1) |->
            replace(replace(pieces[i + 1], <<"~", "1">>, <<"/">>), <<"~", "0">>, <<"~">>)]

RECURSIVE DigitsValue(_, _)
DigitsValue(ds, acc) ==
    IF ds = <<>> THEN acc ELSE DigitsValue(Tail(ds), 10 * acc + DigitVal(Head(ds)))

\* int(p) for text made of a sign and decimal digits: ok is FALSE for the
\* ValueError int raises on anything else (the empty text, letters, '~').
int(p) ==
    LET signed == p # <<>> /\ Head(p) \in {"+", "-"}
        ds == IF signed THEN Tail(p) ELSE p
    IN  IF ds = <<>> \/ \E i \in 1..Len(ds) : ds[i] \notin Digits
        THEN [ok |-> FALSE, val |-> 0]
        ELSE [ok |-> TRUE,
              val |-> IF signed /\ Head(p) = "-" THEN 0 - DigitsValue(ds, 0)
                      ELSE DigitsValue(ds, 0)]

RECURSIVE GetLoop(_, _)
\* The loop of json_pointer_get. cur[idx] is Python's list indexing: a
\* negative idx counts from the end, IndexError only outside -len..len-1.
GetLoop(cur, parts) ==
    IF parts = <<>> THEN Ok(cur)
    ELSE LET p == Head(parts)
         IN  IF cur.t = "seq"
             THEN IF ~int(p).ok THEN KeyError
                  ELSE LET idx == int(p).val
                           n == Len(cur.v)
                       IN  IF idx >= n \/ idx < 0 - n THEN KeyError
                           ELSE GetLoop(cur.v[IF idx < 0 THEN idx + n + 1 ELSE idx + 1],
                                        Tail(parts))
             ELSE IF cur.t = "map"
             THEN IF p \notin DOMAIN cur.v THEN KeyError
                  ELSE GetLoop(cur.v[p], Tail(parts))
             ELSE KeyError

json_pointer_get(doc, pointer) ==
    IF pointer \in {<<>>, <<"/">>} THEN Ok(doc)
    ELSE LET ptr == IF startswith(pointer, "#") THEN Tail(pointer) ELSE pointer
         IN  IF ~startswith(ptr, "/") THEN ValueError
             ELSE GetLoop(doc, Parts(ptr))

\* Mutant of StoreAt: the value is stored one place further on when there is one.
StoreAtNext(items, idx, value) ==
    [items EXCEPT ![IF idx + 2 <= Len(items) THEN idx + 2 ELSE idx + 1] = value]

\* cur[idx] = value for a list and an idx in 0..len-1.
StoreAt(items, idx, value) == [items EXCEPT ![idx + 1] = value]

RECURSIVE SetLoopCreating(_, _, _)
\* Mutant of SetLoop: the last segment is assigned to a mapping without the
\* test for the key, which creates it when it is missing.
SetLoopCreating(cur, parts, value) ==
    LET p == Head(parts)
        last == Len(parts) = 1
    IN  IF cur.t = "seq"
        THEN IF ~int(p).ok THEN KeyError
             ELSE LET idx == int(p).val
                  IN  IF idx < 0 \/ idx >= Len(cur.v) THEN KeyError
                      ELSE IF last THEN Ok(JList(StoreAt(cur.v, idx, value)))
                      ELSE LET r == SetLoopCreating(cur.v[idx + 1], Tail(parts), value)
                           IN  IF r.kind = "ok"
                               THEN Ok(JList(StoreAt(cur.v, idx, r.val)))
                               ELSE r
        ELSE IF cur.t = "map"
        THEN IF last THEN Ok(JDict((p :> value) @@ cur.v))
             ELSE IF p \notin DOMAIN cur.v THEN KeyError
             ELSE LET r == SetLoopCreating(cur.v[p], Tail(parts), value)
                  IN  IF r.kind = "ok" THEN Ok(JDict([cur.v EXCEPT ![p] = r.val])) ELSE r
        ELSE KeyError

RECURSIVE SetLoop(_, _, _)
\* The loop of json_pointer_set on a non-empty parts: Ok(cur as it is after
\* the assignment), or the KeyError raised, before which nothing was assigned.
SetLoop(cur, parts, value) ==
    LET p == Head(parts)
        last == Len(parts) = 1
    IN  IF cur.t = "seq"
        THEN IF ~int(p).ok THEN KeyError
             ELSE LET idx == int(p).val
                  IN  IF idx < 0 \/ idx >= Len(cur.v) THEN KeyError
                      ELSE IF last THEN Ok(JList(StoreAt(cur.v, idx, value)))
                      ELSE LET r == SetLoop(cur.v[idx + 1], Tail(parts), value)
                           IN  IF r.kind = "ok"
                               THEN Ok(JList(StoreAt(cur.v, idx, r.val)))
                               ELSE r
        ELSE IF cur.t = "map"
        THEN IF p \notin DOMAIN cur.v THEN KeyError
             ELSE IF last THEN Ok(JDict([cur.v EXCEPT ![p] = value]))
             ELSE LET r == SetLoop(cur.v[p], Tail(parts), value)
                  IN  IF r.kind = "ok" THEN Ok(JDict([cur.v EXCEPT ![p] = r.val])) ELSE r
        ELSE KeyError

\* json_pointer_set changes doc in place: kind is "ok" or the exception, val
\* is doc as the call leaves it.
json_pointer_set(doc, pointer, value) ==
    IF pointer \in {<<>>, <<"/">>} THEN [kind |-> "ValueError", val |-> doc]
    ELSE LET ptr == IF startswith(pointer, "#") THEN Tail(pointer) ELSE pointer
         IN  IF ~startswith(ptr, "/") THEN [kind |-> "ValueError", val |-> doc]
             ELSE LET r == SetLoop(doc, Parts(ptr), value)
                  IN  IF r.kind = "ok" THEN r ELSE [kind |-> r.kind, val |-> doc]

\* ----------------------------------------------- the pointer calls, run
\* Pointers are made of at most MaxPieces pieces.
MaxPieces == 3

\* Pieces of pointer text: the '#' alias, a bare '/', segments (keys, indices
\* in range, negative and past the end, '~1' and '~0' escapes) and a word
\* without a '/'.
PiecePool ==
    { <<"#">>, <<"/">>, <<"/">> \o kPresets, <<"/">> \o kName,
      <<"/", "0">>, <<"/", "-", "1">>, <<"/", "9">>,
      <<"/", "a", "~", "1", "b">>, <<"/", "~", "0">>, <<"x">> }

RECURSIVE PointersUpTo(_)
PointersUpTo(n) ==
    IF n = 0 THEN {<<>>}
    ELSE LET shorter == PointersUpTo(n - 1)
         IN  shorter \cup {q \o piece : q \in shorter, piece \in PiecePool}

PointerPool == PointersUpTo(MaxPieces)

\* A document with a key that holds '/' and one that is '~'.
PointerDoc ==
    JDict((kPresets :> JList(<<JDict(kName :> JStr(<<"A">>)), JInt(7)>>))
          @@ (<<"a", "/", "b">> :> JInt(1))
          @@ (<<"~">> :> JStr(<<"s">>)))

\* The trees the pointers are applied to: two mappings and a sequence.
DocPool == {ConfigB, PointerDoc, JList(<<JInt(1), JStr(<<"s">>)>>)}

\* The value cmd_set assigns.
NewValue == JStr(<<"n", "e", "w">>)

NoResult == [kind |-> "none", val |-> JNull]

\* One tree and one pointer, and the outcome of each call made with them:
\* get(pointer), get('#' + pointer), set(pointer), set('#' + pointer) and
\* set(pointer, get(pointer)), every call on the tree as loaded.
PointerCalls(doc, pointer) ==
    [name |-> "pointer", doc |-> doc, pointer |-> pointer,
     get |-> NoResult, get_hash |-> NoResult, set |-> NoResult,
     set_hash |-> NoResult, set_get |-> NoResult]

PointerInit ==
    /\ fs = [p \in Paths |-> Absent]
    /\ bank = NoBank
    /\ pre = fs
    /\ nsaves = 0
    /\ pc = "get"
    /\ op \in {PointerCalls(d, p) : d \in DocPool, p \in PointerPool}

Get ==
    /\ pc = "get"
    /\ op' = [op EXCEPT !.get = json_pointer_get(op.doc, op.pointer)]
    /\ pc' = "get_hash"
    /\ UNCHANGED <<fs, bank, pre, nsaves>>

GetHash ==
    /\ pc = "get_hash"
    /\ op' = [op EXCEPT !.get_hash = json_pointer_get(op.doc, <<"#">> \o op.pointer)]
    /\ pc' = "set"
    /\ UNCHANGED <<fs, bank, pre, nsaves>>

Set ==
    /\ pc = "set"
    /\ op' = [op EXCEPT !.set = json_pointer_set(op.doc, op.pointer, NewValue)]
    /\ pc' = "set_hash"
    /\ UNCHANGED <<fs, bank, pre, nsaves>>

SetHash ==
    /\ pc = "set_hash"
    /\ op' = [op EXCEPT !.set_hash =
                  json_pointer_set(op.doc, <<"#">> \o op.pointer, NewValue)]
    /\ pc' = "set_get"
    /\ UNCHANGED <<fs, bank, pre, nsaves>>

\* set(tree, p, get(tree, p)), for a p that get resolves.
SetGet ==
    /\ pc = "set_get"
    /\ op.get.kind = "ok"
    /\ op' = [op EXCEPT !.set_get = json_pointer_set(op.doc, op.pointer, op.get.val)]
    /\ pc' = "done"
    /\ UNCHANGED <<fs, bank, pre, nsaves>>

PointerNext == Get \/ GetHash \/ Set \/ SetHash \/ SetGet

PointerSpec == PointerInit /\ [][PointerNext]_vars

\* ------------------------------------------------------- coerce_value
UpperChars ==
    <<"A", "B", "C", "D", "E", "F", "G", "H", "I", "J", "K", "L", "M",
      "N", "O", "P", "Q", "R", "S", "T", "U", "V", "W", "X", "Y", "Z">>
LowerChars ==
    <<"a", "b", "c", "d", "e", "f", "g", "h", "i", "j", "k", "l", "m",
      "n", "o", "p", "q", "r", "s", "t", "u", "v", "w", "x", "y", "z">>

\* Mutant of lower: the text is compared as it was typed.
lowerNone(s) == s

\* str.lower() on ASCII text.
lower(s) ==
    [i \in 1..Len(s) |->
        IF \E k \in 1..26 : UpperChars[k] = s[i]
        THEN LowerChars[CHOOSE k \in 1..26 : UpperChars[k] = s[i]]
        ELSE s[i]]

AllDigits(s) == \A i \in 1..Len(s) : s[i] \in Digits
Unsigned(s) == IF s # <<>> /\ Head(s) \in {"+", "-"} THEN Tail(s) ELSE s

\* digits, with at most one '.', and at least one digit.
IsMantissa(m) ==
    LET parts == split(m, ".")
    IN  /\ Len(parts) <= 2
        /\ \A i \in 1..Len(parts) : AllDigits(parts[i])
        /\ \E i \in 1..Len(parts) : parts[i] # <<>>

\* float(raw) does not raise ValueError, for text made of signs, digits, '.',
\* and lower-case letters other than the spellings of inf and nan: a signed
\* mantissa, then maybe 'e' and a signed run of digits.
FloatParses(raw) ==
    LET es == split(Unsigned(raw), "e")
    IN  IF Len(es) = 1 THEN IsMantissa(es[1])
        ELSE /\ Len(es) = 2
             /\ IsMantissa(es[1])
             /\ Unsigned(es[2]) # <<>>
             /\ AllDigits(Unsigned(es[2]))

\* The float that float(raw) returns, kept as the numeral it was read from.
FloatOf(raw) == [t |-> "float", v |-> raw]

\* raw.startswith('0') and raw != '0' and not raw.startswith('0.')
LeadingZero(raw) ==
    /\ startswith(raw, "0")
    /\ raw # <<"0">>
    /\ ~(Len(raw) >= 2 /\ raw[2] = ".")

coerce_value(raw) ==
    LET lowered == lower(raw)
    IN  IF lowered = <<"t", "r", "u", "e">> THEN JBool(TRUE)
        ELSE IF lowered = <<"f", "a", "l", "s", "e">> THEN JBool(FALSE)
        ELSE IF lowered = <<"n", "u", "l", "l">> THEN JNull
        ELSE IF ~LeadingZero(raw) /\ int(raw).ok THEN JInt(int(raw).val)
        ELSE IF FloatParses(raw) THEN FloatOf(raw)
        ELSE JStr(raw)

\* The command-line values are made of at most MaxWords pieces.
MaxWords == 3

\* Pieces of value text: the literals in several letter cases, a word, digits,
\* a sign, the point and the exponent letter.
WordPool ==
    { <<"t", "r", "u", "e">>, <<"T", "r", "U", "e">>, <<"F", "A", "L", "S", "E">>,
      <<"n", "u", "l", "l">>, <<"N", "U", "L", "L">>, <<"h", "i">>,
      <<"0">>, <<"4">>, <<"2">>, <<"7">>, <<".">>, <<"-">>, <<"e">> }

RECURSIVE TextsUpTo(_)
TextsUpTo(n) ==
    IF n = 0 THEN {<<>>}
    ELSE LET shorter == TextsUpTo(n - 1)
         IN  shorter \cup {q \o w : q \in shorter, w \in WordPool}

RawPool == TextsUpTo(MaxWords)

CoerceInit ==
    /\ fs = [p \in Paths |-> Absent]
    /\ bank = NoBank
    /\ pre = fs
    /\ nsaves = 0
    /\ pc = "coerce"
    /\ op \in {[name |-> "coerce_value", raw |-> r, value |-> JNull] : r \in RawPool}

\* value = coerce_value(args.value)
Coerce ==
    /\ pc = "coerce"
    /\ op' = [op EXCEPT !.value = coerce_value(op.raw)]
    /\ pc' = "done"
    /\ UNCHANGED <<fs, bank, pre, nsaves>>

CoerceSpec == CoerceInit /\ [][Coerce]_vars

\* ----------------------------------------- _next_version_path (the GUI)
\* A file name is the text of the last component of a path; with_name keeps
\* the directory, which is therefore left out.
\* str.rfind('.') counted from 1: the place of the last '.', 0 when none.
LastDot(name) ==
    LET dots == {i \in 1..Len(name) : name[i] = "."}
    IN  IF dots = {} THEN 0 ELSE CHOOSE i \in dots : \A j \in dots : j <= i

\* Path.suffix: the text from the last '.', unless that is the first or the
\* last character of the name.
PathSuffix(name) ==
    IF 1 < LastDot(name) /\ LastDot(name) < Len(name)
    THEN SubSeq(name, LastDot(name), Len(name)) ELSE <<>>

\* Path.stem: the name without its suffix.
PathStem(name) == SubSeq(name, 1, Len(name) - Len(PathSuffix(name)))

\* re.search(r"^(.*)_v(\d{3})$", stem) matches: the stem ends with '_v' and
\* three digits.
VersionMatch(stem) ==
    /\ Len(stem) >= 5
    /\ stem[Len(stem) - 4] = "_"
    /\ stem[Len(stem) - 3] = "v"
    /\ \A i \in (Len(stem) - 2)..Len(stem) : stem[i] \in Digits

\* f"{num:03d}": the decimal digits, filled with zeros to three places.
Format03d(num) ==
    LET r == IntRepr(num)
    IN  IF Len(r) >= 3 THEN r
        ELSE IF Len(r) = 2 THEN <<"0">> \o r
        ELSE <<"0", "0">> \o r

\* f"{base}_v{num:03d}{suffix}"
VersionName(base, num, suffix) == base \o <<"_", "v">> \o Format03d(num) \o suffix

\* Mutant of CandidateExists: no candidate is taken to exist.
CandidateExistsNever(files, candidate) == FALSE

\* candidate.exists(), files being the names in the directory.
CandidateExists(files, candidate) == candidate \in files

RECURSIVE NextFree(_, _, _, _)
\* The while loop: num += 1 until the candidate does not exist.
NextFree(base, num, suffix, files) ==
    LET candidate == VersionName(base, num + 1, suffix)
    IN  IF CandidateExists(files, candidate)
        THEN NextFree(base, num + 1, suffix, files)
        ELSE candidate

next_version_path(path, files) ==
    LET stem == PathStem(path)
        m == VersionMatch(stem)
        base == IF m THEN SubSeq(stem, 1, Len(stem) - 5) ELSE stem
        num == IF m THEN DigitsValue(SubSeq(stem, Len(stem) - 2, Len(stem)), 0) ELSE 0
    IN  NextFree(base, num, PathSuffix(path), files)

\* New versions saved in one run.
MaxNewVersions == 2

Name(stem) == stem \o <<".", "n", "p", "b">>
Amp == <<"a", "m", "p">>
\* Names a directory may hold at the start: a bank, versions of it (the last
\* three-digit one among them), a name with two digits after '_v'.
NamePool ==
    { Name(Amp), Name(Amp \o <<"_", "v", "0", "0", "1">>),
      Name(Amp \o <<"_", "v", "0", "0", "2">>),
      Name(Amp \o <<"_", "v", "9", "9", "9">>),
      Name(Amp \o <<"_", "v", "0", "1">>) }

\* The directory (files), the path of the loaded bank, and (history) both as
\* they were at the last save_new_version, with the path it computed.
VersionInit ==
    /\ fs = [p \in Paths |-> Absent]
    /\ bank = NoBank
    /\ pre = fs
    /\ nsaves = 0
    /\ pc = "idle"
    /\ op \in {[name |-> "version", files |-> F, path |-> p, before |-> F,
                called |-> p, new_path |-> <<>>] :
                   F \in SUBSET NamePool \ {{}}, p \in NamePool}
    /\ op.path \in op.files

\* The user opens another bank of the directory.
open_bank(p) ==
    /\ p \in op.files
    /\ p # op.path
    /\ op' = [op EXCEPT !.path = p]
    /\ UNCHANGED <<fs, bank, pc, pre, nsaves>>

\* save_new_version: save_bank_as writes the new file and the bank takes the
\* new path.
save_new_version ==
    /\ nsaves < MaxNewVersions
    /\ LET new_path == next_version_path(op.path, op.files)
       IN  op' = [op EXCEPT !.files = op.files \cup {new_path}, !.path = new_path,
                            !.before = op.files, !.called = op.path,
                            !.new_path = new_path]
    /\ nsaves' = nsaves + 1
    /\ UNCHANGED <<fs, bank, pc, pre>>

\* save_new_version when save_bank_as raises: no file, the path is kept.
save_new_version_fails ==
    /\ nsaves < MaxNewVersions
    /\ op' = [op EXCEPT !.before = op.files, !.called = op.path,
                        !.new_path = next_version_path(op.path, op.files)]
    /\ nsaves' = nsaves + 1
    /\ UNCHANGED <<fs, bank, pc, pre>>

VersionNext ==
    \/ \E p \in NamePool : open_bank(p)
    \/ save_new_version
    \/ save_new_version_fails

VersionSpec == VersionInit /\ [][VersionNext]_vars

\* ------------------------------------------------------ Bank.diff_config
\* A number in tenths: what Python compares when it compares an int, a float
\* (integer part n, one fractional digit d) or a bool to another number.
Tenths(x) ==
    CASE x.t = "int" -> 10 * x.v
      [] x.t = "float" -> IF x.v[1] < 0 THEN 10 * x.v[1] - x.v[2] ELSE 10 * x.v[1] + x.v[2]
      [] x.t = "bool" -> IF x.v THEN 10 ELSE 0

RECURSIVE PyEq(_, _)
\* a == b in Python for values json.loads builds: numbers (bools among them)
\* by value, strings and None by identity of content, lists element by
\* element, dicts key by key.
PyEq(a, b) ==
    IF a.t \in {"int", "float", "bool"} /\ b.t \in {"int", "float", "bool"}
    THEN Tenths(a) = Tenths(b)
    ELSE IF a.t # b.t THEN FALSE
    ELSE IF a.t = "seq"
    THEN Len(a.v) = Len(b.v) /\ \A i \in 1..Len(a.v) : PyEq(a.v[i], b.v[i])
    ELSE IF a.t = "map"
    THEN DOMAIN a.v = DOMAIN b.v /\ \A k \in DOMAIN a.v : PyEq(a.v[k], b.v[k])
    ELSE a.v = b.v

\* po.get('name')
GetName(preset) == IF kName \in DOMAIN preset.v THEN preset.v[kName] ELSE JNull

\* f"/{k}" and f"/presets/{i}/name"
KeyPointer(k) == <<"/">> \o k
NamePointer(i) == <<"/">> \o kPresets \o <<"/">> \o IntRepr(i) \o <<"/">> \o kName

\* The places zip(old[k], new[k]) pairs up (counted from 1).
ZipIndices(olds, news) == 1..(IF Len(olds) < Len(news) THEN Len(olds) ELSE Len(news))

\* Mutant of PresetsCase: 'presets' is compared like every other key.
PresetsCaseNever(old, new, k) == FALSE

\* The branch taken for the key 'presets' when both values are lists.
PresetsCase(old, new, k) == k = kPresets /\ old[k].t = "seq" /\ new[k].t = "seq"

\* The entries the loop puts into changed for two lists of presets.
PresetsChanged(olds, news) ==
    LET named == {i \in ZipIndices(olds, news) :
                     /\ olds[i].t = "map"
                     /\ news[i].t = "map"
                     /\ ~PyEq(GetName(olds[i]), GetName(news[i]))}
        names == [p \in {NamePointer(i - 1) : i \in named} |->
                     LET i == CHOOSE j \in named : NamePointer(j - 1) = p
                     IN  <<GetName(olds[i]), GetName(news[i])>>]
    IN  IF Len(olds) # Len(news)
        THEN (KeyPointer(kPresets) :> <<JInt(Len(olds)), JInt(Len(news))>>) @@ names
        ELSE names

NoDiff == [changed |-> <<>>, added |-> <<>>, removed |-> <<>>]

\* Bank.diff_config for a bank whose original text, when it parses, and whose
\* config are mappings.
diff_config(b) ==
    LET parsed == Loads(b.original_config_json)
    IN  IF ~parsed.ok THEN NoDiff
        ELSE LET old == parsed.val.v
                 new == b.config.v
                 both == {k \in DOMAIN old \cap DOMAIN new : ~PyEq(old[k], new[k])}
                 plain == {k \in both : ~PresetsCase(old, new, k)}
                 top == [p \in {KeyPointer(k) : k \in plain} |->
                            LET k == CHOOSE j \in plain : KeyPointer(j) = p
                            IN  <<old[k], new[k]>>]
             IN  [changed |->
                     IF \E k \in both : PresetsCase(old, new, k)
                     THEN top @@ PresetsChanged(old[kPresets].v, new[kPresets].v)
                     ELSE top,
                  added |->
                     [p \in {KeyPointer(k) : k \in DOMAIN new \ DOMAIN old} |->
                         new[CHOOSE k \in DOMAIN new \ DOMAIN old : KeyPointer(k) = p]],
                  removed |->
                     [p \in {KeyPointer(k) : k \in DOMAIN old \ DOMAIN new} |->
                         old[CHOOSE k \in DOMAIN old \ DOMAIN new : KeyPointer(k) = p]]]

\* Longest list of presets in a compared configuration.
MaxPresets == 2

\* Elements of a presets list: mappings with a name, one without, a number.
PresetPool ==
    { Preset(<<"A">>, JInt(255)), Preset(<<"B">>, JInt(255)), Preset(<<"A">>, JNull),
      JDict(kLedColor :> JInt(1)), JInt(3) }

Missing == [t |-> "missing", v |-> "missing"]

\* Values of 'configVersion' and of 'presets': none, equal and unequal
\* numbers; none, a text, lists of presets.
VersionPool == {Missing, JInt(1), JFloat(1, 0)}
PresetsPool == {Missing, JStr(<<"x">>)} \cup {JList(l) : l \in SeqsUpTo(PresetPool, MaxPresets)}

\* The mapping with the members that are not Missing.
DiffConfig(version, presets) ==
    JDict([k \in {j \in {kConfigVersion, kPresets} :
                     (IF j = kConfigVersion THEN version ELSE presets) # Missing} |->
              IF k = kConfigVersion THEN version ELSE presets])

DiffConfigPool == {DiffConfig(v, ps) : v \in VersionPool, ps \in PresetsPool}
                      \cup {DiffConfig(JInt(2), JList(<<>>))}

\* A bank as load_bank or save_bank left it (the original text is the dump of
\* a configuration) or built without a load (the text is empty), then edited.
DiffInit ==
    /\ fs = [p \in Paths |-> Absent]
    /\ pre = fs
    /\ nsaves = 0
    /\ pc = "diff"
    /\ bank \in {[path |-> NpbPath(0), config |-> new, assets |-> <<>>,
                  original_config_json |-> text] :
                     new \in DiffConfigPool,
                     text \in {Dumps(old, FALSE) : old \in DiffConfigPool} \cup {<<>>}}
    /\ op = [name |-> "diff_config", diff |-> NoDiff]

Diff ==
    /\ pc = "diff"
    /\ op' = [op EXCEPT !.diff = diff_config(bank)]
    /\ pc' = "done"
    /\ UNCHANGED <<fs, bank, pre, nsaves>>

DiffSpec == DiffInit /\ [][Diff]_vars

\* ------------------------------------------------- the command line, run
\* build_parser: the subcommands and the number of arguments each one takes.
SubCommands == {"show", "export", "update", "get", "set"}
Arity(cmd) == CASE cmd = "show" -> 1
                [] cmd \in {"export", "update", "get"} -> 2
                [] cmd = "set" -> 3

\* parser.parse_args(argv) returns the arguments; it leaves the process with
\* SystemExit(2) otherwise.
ParseOk(argv) == argv.cmd \in SubCommands /\ argv.given = Arity(argv.cmd)

\* Mutant of StepAfter: cmd_set coerces the value before it loads the bank.
StepAfterCoerceFirst(cmd, step) ==
    CASE step = "NPBBank" ->
            IF cmd = "update" THEN "load_input"
            ELSE IF cmd = "set" THEN "coerce_value" ELSE "read_config"
      [] step = "read_config" ->
            (CASE cmd = "show" -> "print"
               [] cmd = "export" -> "write_output"
               [] cmd = "get" -> "json_pointer_get"
               [] cmd = "set" -> "json_pointer_set")
      [] step = "coerce_value" -> "read_config"
      [] step = "json_pointer_set" -> "replace_config"
      [] step = "load_input" -> "replace_config"
      [] step \in {"json_pointer_get", "write_output", "replace_config"} -> "print"

\* The statement that follows `step` in the function of the subcommand; the
\* last one of each is the print (for show, the dump to standard output).
StepAfter(cmd, step) ==
    CASE step = "NPBBank" -> IF cmd = "update" THEN "load_input" ELSE "read_config"
      [] step = "read_config" ->
            (CASE cmd = "show" -> "print"
               [] cmd = "export" -> "write_output"
               [] cmd = "get" -> "json_pointer_get"
               [] cmd = "set" -> "coerce_value")
      [] step = "coerce_value" -> "json_pointer_set"
      [] step = "json_pointer_set" -> "replace_config"
      [] step = "load_input" -> "replace_config"
      [] step \in {"json_pointer_get", "write_output", "replace_config"} -> "print"

\* The bank file of the command line and the archives it may hold: one with
\* the configuration under './config.json' and a model file, one with it under
\* 'config.json', one without a configuration, one whose configuration is a
\* directory entry.
CliBank == NpbPath(0)
CliArchives ==
    { <<Member(DotSlashConfigName, "file", "644", Dumps(ConfigB, TRUE)),
        Member(<<".", "/", "a.nam">>, "file", "755", <<"y", "y">>)>>,
      <<Member(CONFIG_NAME, "file", "600", Dumps(ConfigA, FALSE))>>,
      <<Member(<<".", "/", "a.nam">>, "file", "755", <<"y", "y">>)>>,
      <<Member(DotSlashConfigName, "dir", "700", <<>>)>> }

\* The pointers, values (an integer, a boolean, a string) and input files given
\* on the command line.
CliPointers ==
    { <<"/">> \o kConfigVersion, <<"/">> \o kPresets \o <<"/", "0">> \o <<"/">> \o kName,
      <<"/">> \o kPresets \o <<"/", "9">>, kPresets, <<>> }
CliValues == {<<"1", "2">>, <<"T", "r", "u", "e">>, <<"h", "i">>}
NoInput == [readable |-> FALSE, text |-> <<>>]
CliInputs ==
    { NoInput, [readable |-> TRUE, text |-> <<"{">>],
      [readable |-> TRUE, text |-> Dumps(ConfigA, TRUE)] }

Argv(cmd, given, pointer, value, input, writable) ==
    [cmd |-> cmd, given |-> given, pointer |-> pointer, value |-> value,
     input |-> input, writable |-> writable]
ArgvPool ==
    {Argv("show", 1, <<>>, <<>>, NoInput, FALSE), Argv("show", 0, <<>>, <<>>, NoInput, FALSE),
     Argv("frob", 1, <<>>, <<>>, NoInput, FALSE)}
    \cup {Argv("export", 2, <<>>, <<>>, NoInput, w) : w \in BOOLEAN}
    \cup {Argv("update", 2, <<>>, <<>>, i, FALSE) : i \in CliInputs}
    \cup {Argv("get", 2, q, <<>>, NoInput, FALSE) : q \in CliPointers}
    \cup {Argv("set", 3, q, v, NoInput, FALSE) : q \in CliPointers, v \in CliValues}
    \cup {Argv("set", 2, q, <<>>, NoInput, FALSE) : q \in CliPointers}

\* The call of main: the save record of replace_config, and with it the
\* arguments, the locals of the subcommand (cfg, value), the text written by
\* export, the statements run so far, the one that raised ("no": none) and the
\* exit code (-1 while main runs).
MainCall(argv) ==
    [name |-> "main", src |-> NoPath, dest |-> NoPath, tmp |-> NoPath,
     backup |-> FALSE, config |-> JNull, raised |-> "no", cleanup |-> "pending",
     before |-> NoBank,
     argv |-> argv, cfg |-> JNull, value |-> JNull, output |-> <<>>,
     trace |-> <<>>, err |-> "no", code |-> -1]

CliInit ==
    /\ fs \in {[p \in Paths |-> IF p = CliBank THEN f
                                ELSE IF p = BakOf(CliBank) THEN b ELSE Absent] :
                  f \in {Absent, Junk} \cup {Tar(a) : a \in CliArchives},
                  b \in {Absent, Junk}}
    /\ bank = NoBank
    /\ pc = "parse_args"
    /\ op \in {MainCall(argv) : argv \in ArgvPool}
    /\ pre = fs
    /\ nsaves = 0

\* The statement at pc completes and the next one of the subcommand is reached.
Step(step, o) ==
    /\ pc = step
    /\ op' = [o EXCEPT !.trace = Append(@, step)]
    /\ pc' = StepAfter(op.argv.cmd, step)
    /\ UNCHANGED <<fs, bank, pre, nsaves>>

\* The statement at pc raises an Exception, which main catches.
StepRaises(step) ==
    /\ pc = step
    /\ op' = [op EXCEPT !.trace = Append(@, step), !.err = step]
    /\ pc' = "except"
    /\ UNCHANGED <<fs, bank, pre, nsaves>>

parse_args ==
    /\ pc = "parse_args"
    /\ ParseOk(op.argv)
    /\ op' = [op EXCEPT !.trace = Append(@, "parse_args")]
    /\ pc' = "NPBBank"
    /\ UNCHANGED <<fs, bank, pre, nsaves>>

\* argparse prints the usage and raises SystemExit(2), which is no Exception.
parse_args_exits ==
    /\ pc = "parse_args"
    /\ ~ParseOk(op.argv)
    /\ op' = [op EXCEPT !.trace = Append(@, "parse_args"), !.err = "parse_args", !.code = 2]
    /\ pc' = "exit"
    /\ UNCHANGED <<fs, bank, pre, nsaves>>

\* NPBBank(args.bank)
NPBBank == Exists(fs[CliBank]) /\ Step("NPBBank", op)
NPBBankRaises == ~Exists(fs[CliBank]) /\ StepRaises("NPBBank")

\* cfg = bank.read_config()
ReadConfig ==
    /\ LoadOk(fs[CliBank])
    /\ Step("read_config", [op EXCEPT !.cfg = read_config(fs[CliBank])])
ReadConfigRaises == ~LoadOk(fs[CliBank]) /\ StepRaises("read_config")

\* cmd_export: open(args.output, 'w') and json.dump(cfg, f, indent=4)
WriteOutput ==
    /\ op.argv.writable
    /\ Step("write_output", [op EXCEPT !.output = Dumps(op.cfg, TRUE)])
WriteOutputRaises == ~op.argv.writable /\ StepRaises("write_output")

\* cmd_update: open(args.input) and json.load(f)
LoadInput ==
    /\ op.argv.input.readable /\ Loads(op.argv.input.text).ok
    /\ Step("load_input", [op EXCEPT !.cfg = Loads(op.argv.input.text).val])
LoadInputRaises ==
    /\ ~(op.argv.input.readable /\ Loads(op.argv.input.text).ok)
    /\ StepRaises("load_input")

\* cmd_get: val = json_pointer_get(cfg, args.pointer)
PointerGet ==
    /\ json_pointer_get(op.cfg, op.argv.pointer).kind = "ok"
    /\ Step("json_pointer_get", op)
PointerGetRaises ==
    /\ json_pointer_get(op.cfg, op.argv.pointer).kind # "ok"
    /\ StepRaises("json_pointer_get")

\* cmd_set: value = coerce_value(args.value)
CoerceValue == Step("coerce_value", [op EXCEPT !.value = coerce_value(op.argv.value)])

\* cmd_set: json_pointer_set(cfg, args.pointer, value)
PointerSet ==
    LET r == json_pointer_set(op.cfg, op.argv.pointer, op.value)
    IN  /\ r.kind = "ok"
        /\ Step("json_pointer_set", [op EXCEPT !.cfg = r.val])
PointerSetRaises ==
    /\ json_pointer_set(op.cfg, op.argv.pointer, op.value).kind # "ok"
    /\ StepRaises("json_pointer_set")

\* bank.replace_config(cfg) is called: mkstemp creates the temporary file.
CallReplaceConfig ==
    /\ pc = "replace_config"
    /\ nsaves < MaxSaves
    /\ op' = [op EXCEPT !.name = "replace_config", !.src = CliBank, !.dest = CliBank,
                        !.tmp = MkstempPath, !.backup = TRUE, !.config = op.cfg,
                        !.trace = Append(@, "replace_config")]
    /\ fs' = [fs EXCEPT ![MkstempPath] = Junk]
    /\ pc' = "build"
    /\ pre' = fs
    /\ nsaves' = nsaves + 1
    /\ UNCHANGED bank

\* replace_config returns, or raises what its try block raised.
ReplaceConfigEnds ==
    /\ pc = "done"
    /\ op' = [op EXCEPT !.err = IF Failed(op) THEN "replace_config" ELSE "no"]
    /\ pc' = IF Failed(op) THEN "except" ELSE StepAfter(op.argv.cmd, "replace_config")
    /\ UNCHANGED <<fs, bank, pre, nsaves>>

\* The subcommand prints and returns; main returns 0.
MainReturns ==
    /\ pc = "print"
    /\ op' = [op EXCEPT !.code = 0]
    /\ pc' = "exit"
    /\ UNCHANGED <<fs, bank, pre, nsaves>>

\* except Exception: the error is printed and main returns 1.
MainExcept ==
    /\ pc = "except"
    /\ op' = [op EXCEPT !.code = 1]
    /\ pc' = "exit"
    /\ UNCHANGED <<fs, bank, pre, nsaves>>

CliNext ==
    \/ parse_args
    \/ parse_args_exits
    \/ NPBBank
    \/ NPBBankRaises
    \/ ReadConfig
    \/ ReadConfigRaises
    \/ WriteOutput
    \/ WriteOutputRaises
    \/ LoadInput
    \/ LoadInputRaises
    \/ PointerGet
    \/ PointerGetRaises
    \/ CoerceValue
    \/ PointerSet
    \/ PointerSetRaises
    \/ CallReplaceConfig
    \/ Build
    \/ BuildFails
    \/ BackupCopy
    \/ \E created \in BOOLEAN : BackupCopyFails(created)
    \/ BackupSkip
    \/ Replace
    \/ ReplaceFails
    \/ RemoveTmp
    \/ RemoveTmpFails
    \/ NoTmpLeft
    \/ ReplaceConfigEnds
    \/ MainReturns
    \/ MainExcept

CliSpec == CliInit /\ [][CliNext]_vars

\* ------------------------------------------------------- the window, run
\* Saves started from the window in one run.
MaxGuiSaves == 2

\* The files of the directory: amp.npb (version 0) and its versions
\* amp_v001.npb ..., the '.bak' sibling of each, the temporary files.
GuiNpbPaths == {NpbPath(v) : v \in 0..(MaxGuiSaves + 1)}
GuiPaths ==
    GuiNpbPaths \cup {BakOf(p) : p \in GuiNpbPaths} \cup {TmpPath(k) : k \in 1..MaxGuiSaves}

\* The file name of a bank path.
PathName(p) ==
    IF p[2] = 0 THEN Name(Amp) ELSE Name(Amp \o <<"_", "v">> \o Format03d(p[2]))

\* self._next_version_path(Path(bank.path)), where f is the file system: the
\* candidates are tested with candidate.exists().
NewVersionName(path, f) ==
    next_version_path(PathName(path), {PathName(q) : q \in {r \in GuiNpbPaths : Exists(f[r])}})

\* Mutant of PathAfterSaveAs: the path is switched whether save_bank_as
\* raised or not.
PathAfterSaveAsAlways(o, b) == o.dest

\* bank.path when save_new_version returns: `return` in the except clause,
\* bank.path = str(new_path) after it.
PathAfterSaveAs(o, b) == IF Failed(o) THEN b.path ELSE o.dest

\* The archives the directory holds at the start: amp.npb and, when there is
\* one, its first version.
GuiArchive ==
    <<Member(DotSlashConfigName, "file", "644", Dumps(JDict(kLedColor :> JInt(1)), TRUE)),
      Member(<<".", "/", "a.nam">>, "file", "755", <<"y", "y">>)>>
GuiVersion ==
    <<Member(CONFIG_NAME, "file", "600", Dumps(JDict(kLedColor :> JInt(2)), FALSE))>>
\* The configuration an edit leaves.
GuiConfigs == {JDict(kLedColor :> JInt(3))}

\* The action of the window that ran last: the save record of the save it
\* called (name "open" or "edit" for the two that save nothing), and
\* (history) the path of the archive the document was opened from, whether a
\* new version of the document was saved since, and that archive as it was
\* when the new version was saved.
GuiAction(name, b, opened, versioned, original) ==
    [name |-> name, src |-> NoPath, dest |-> NoPath, tmp |-> NoPath,
     backup |-> FALSE, config |-> JNull, raised |-> "no", cleanup |-> "pending",
     before |-> b, opened |-> opened, versioned |-> versioned, original |-> original]

GuiInit ==
    /\ fs \in {[p \in GuiPaths |->
                  IF p = NpbPath(0) THEN Tar(GuiArchive)
                  ELSE IF p = NpbPath(1) THEN v
                  ELSE Absent] :
                  v \in {Absent, Tar(GuiVersion)}}
    /\ bank = NoBank
    /\ pc = "idle"
    /\ op = GuiAction("none", NoBank, NoPath, FALSE, Absent)
    /\ pre = fs
    /\ nsaves = 0

\* open_bank: the chosen file loads and its Bank becomes the document (a
\* failed load shows a message and keeps the document).
GuiOpenBank(path) ==
    /\ pc = "idle"
    /\ LoadOk(fs[path])
    /\ bank' = LoadedBank(path, fs[path])
    /\ op' = GuiAction("open", bank, path, FALSE, Absent)
    /\ pre' = fs
    /\ UNCHANGED <<fs, pc, nsaves>>

\* An edit in a panel changes the configuration of the document.
GuiEdit(c) ==
    /\ pc = "idle"
    /\ bank # NoBank
    /\ c # bank.config
    /\ bank' = [bank EXCEPT !.config = c]
    /\ op' = GuiAction("edit", bank, op.opened, op.versioned, op.original)
    /\ pre' = fs
    /\ UNCHANGED <<fs, pc, nsaves>>

\* The window calls a save: mkstemp creates its temporary file.
GuiBegin(name, dest, backup) ==
    /\ pc = "idle"
    /\ bank # NoBank
    /\ nsaves < MaxGuiSaves
    /\ op' = [op EXCEPT !.name = name, !.src = bank.path, !.dest = dest,
                        !.tmp = MkstempPath, !.backup = backup, !.config = bank.config,
                        !.raised = "no", !.cleanup = "pending", !.before = bank]
    /\ fs' = [fs EXCEPT ![MkstempPath] = Junk]
    /\ pc' = "build"
    /\ pre' = fs
    /\ nsaves' = nsaves + 1
    /\ UNCHANGED bank

\* save_new_version: db.save_bank_as(bank, str(new_path))
GuiSaveNewVersion ==
    /\ bank # NoBank
    /\ Exists(fs[bank.path])
    /\ \E new_path \in GuiNpbPaths :
          /\ PathName(new_path) = NewVersionName(bank.path, fs)
          /\ GuiBegin("save_bank_as", new_path, FALSE)

\* save_new_version after save_bank_as: the except clause returns, or the
\* path of the document becomes the new one.
GuiSaveNewVersionEnds ==
    /\ pc = "done"
    /\ op.name = "save_bank_as"
    /\ bank' = [bank EXCEPT !.path = PathAfterSaveAs(op, bank)]
    /\ op' = [op EXCEPT !.versioned = @ \/ ~Failed(op),
                        !.original = IF Failed(op) THEN @ ELSE fs[op.opened]]
    /\ pc' = "idle"
    /\ UNCHANGED <<fs, pre, nsaves>>

\* overwrite_bank, confirmed: db.save_bank(bank)
GuiOverwriteBank == GuiBegin("save_bank", bank.path, TRUE)

\* overwrite_bank after save_bank: a message either way.
GuiOverwriteBankEnds ==
    /\ pc = "done"
    /\ op.name = "save_bank"
    /\ pc' = "idle"
    /\ UNCHANGED <<fs, bank, op, pre, nsaves>>

GuiNext ==
    \/ \E p \in GuiNpbPaths : GuiOpenBank(p)
    \/ \E c \in GuiConfigs : GuiEdit(c)
    \/ GuiSaveNewVersion
    \/ GuiOverwriteBank
    \/ Build
    \/ BuildFails
    \/ BackupCopy
    \/ \E created \in BOOLEAN : BackupCopyFails(created)
    \/ BackupSkip
    \/ Replace
    \/ ReplaceFails
    \/ Refresh
    \/ RemoveTmp
    \/ RemoveTmpFails
    \/ NoTmpLeft
    \/ GuiSaveNewVersionEnds
    \/ GuiOverwriteBankEnds

GuiSpec == GuiInit /\ [][GuiNext]_vars

\* ================================================================= claims
\* The configuration entry as the specification defines it: the name with one
\* leading './' stripped is 'config.json'.
StripDotSlash(name) ==
    IF Len(name) >= 2 /\ name[1] = "." /\ name[2] = "/"
    THEN SubSeq(name, 3, Len(name)) ELSE name
IsConfigurationEntry(m) == StripDotSlash(m.name) = CONFIG_NAME
OtherEntries(members) == SelectSeq(members, LAMBDA m : ~IsConfigurationEntry(m))
Count(members, m) == Cardinality({i \in 1..Len(members) : members[i] = m})
Names(members) == [i \in 1..Len(members) |-> members[i].name]

\* A save has returned to its caller / has returned without raising.
Returned == pc = "done"
Succeeded == pc = "done" /\ ~Failed(op)
\* The archive the running save read, as it was when the save was called.
Source == pre[op.src].members

\* C1: after a successful save_bank, save_bank_as or replace_config every
\* entry of the source archive other than the configuration entry is in the
\* rewritten archive, unaltered (name, kind, metadata, content) and as often
\* as in the source, and the rewritten archive holds no other such entry.
C1_OtherEntriesPreserved ==
    Succeeded =>
        /\ \A i \in 1..Len(OtherEntries(Source)) :
              Count(fs[op.dest].members, OtherEntries(Source)[i])
                  = Count(Source, OtherEntries(Source)[i])
        /\ \A j \in 1..Len(OtherEntries(fs[op.dest].members)) :
              Count(Source, OtherEntries(fs[op.dest].members)[j]) > 0

\* C2: only an entry named 'config.json' or './config.json' is skipped: after
\* a successful save every source entry of another name is in the output, and
\* a bank just loaded lists every such entry of its archive in Bank.assets.
C2_OnlyTwoFormsAreConfiguration ==
    /\ Succeeded =>
          \A i \in 1..Len(Source) :
              ~IsConfigurationEntry(Source[i]) => Count(fs[op.dest].members, Source[i]) > 0
    /\ (bank # NoBank /\ nsaves = 0) =>
          \A i \in 1..Len(fs[bank.path].members) :
              ~IsConfigurationEntry(fs[bank.path].members[i]) =>
                  \E k \in 1..Len(bank.assets) :
                      bank.assets[k] = Asset(fs[bank.path].members[i])

\* C3: when save_bank raises while the temporary archive is built, the file at
\* bank.path has the content it had before the call and no '.bak' file exists
\* that did not exist before the call.
C3_BuildFailureLeavesBank ==
    (op.name = "save_bank" /\ op.raised = "build") =>
        /\ fs[op.dest] = pre[op.dest]
        /\ Exists(fs[BakOf(op.src)]) => Exists(pre[BakOf(op.src)])
C3_Witness ==
    /\ Returned /\ op.name = "save_bank" /\ op.raised = "build" /\ op.backup
    /\ bank.config # read_config(pre[op.src])

\* The file at the path a save writes is the complete old archive or the
\* complete new one.
OldOrNew ==
    \/ fs[op.dest] = pre[op.dest]
    \/ fs[op.dest] = Tar(Rewrite(Source, SavedConfig))

\* C4 as claimed: when save_bank or replace_config has returned, the temporary
\* file no longer exists, a save that raised has left bank.path unchanged, and
\* in every state bank.path holds the complete old or the complete new archive.
C4_TempFileAlwaysRemoved ==
    op.name \in {"save_bank", "replace_config"} =>
        /\ OldOrNew
        /\ Returned => ~Exists(fs[op.tmp])
        /\ (Returned /\ Failed(op)) => fs[op.dest] = pre[op.dest]

\* C4 as amended: the same, but the temporary file may remain after a save that
\* raised when os.remove raised too (the finally clause ignores that error).
C4_TempFileRemovedUnlessRemoveFails ==
    op.name \in {"save_bank", "replace_config"} =>
        /\ OldOrNew
        /\ (Returned /\ Exists(fs[op.tmp])) => (Failed(op) /\ op.cleanup = "remove_failed")
        /\ (Returned /\ Failed(op)) => fs[op.dest] = pre[op.dest]
C4_Witness ==
    /\ Returned /\ op.name = "save_bank" /\ op.raised = "replace"
    /\ op.cleanup = "removed" /\ ~Exists(fs[op.tmp])
    /\ Exists(fs[BakOf(op.src)])

\* C5: path + '.bak' is created at most once, by the first save_bank (backup
\* = True) that finds it absent, and from then on holds the archive as it was
\* before that save: a save that finds no '.bak' leaves none or a copy of the
\* archive it was called on, and a save that finds one leaves it as it is.
C5_BackupHoldsArchiveBeforeFirstSave ==
    (Returned /\ op.name = "save_bank" /\ op.backup) =>
        IF Exists(pre[BakOf(op.src)])
        THEN fs[BakOf(op.src)] = pre[BakOf(op.src)]
        ELSE Exists(fs[BakOf(op.src)]) => fs[BakOf(op.src)] = pre[op.src]

\* C6: in save_bank with backup = True and in replace_config the replace step
\* is reached, and the file at path is the rewritten archive, only in states
\* where a file exists at path + '.bak'.
C6_BackupPrecedesReplace ==
    (op.name \in {"save_bank", "replace_config"} /\ op.backup) =>
        ((pc \in {"replace", "refresh"} \/ fs[op.dest] # pre[op.dest])
            => Exists(fs[BakOf(op.src)]))
C6_Witness ==
    /\ pc = "refresh" /\ op.backup
    /\ fs[op.dest] # pre[op.dest]
    /\ ~Exists(pre[BakOf(op.src)])
    /\ fs[BakOf(op.src)] = pre[op.src]

\* C7: after a successful save_bank, load_bank(bank.path) succeeds and returns
\* the configuration tree held in bank.config; after a successful
\* replace_config(D), read_config returns D.
C7_SavedConfigurationReadsBack ==
    /\ (Succeeded /\ op.name = "save_bank") =>
          /\ LoadOk(fs[bank.path])
          /\ LoadedBank(bank.path, fs[bank.path]).config = bank.config
    /\ (Succeeded /\ op.name = "replace_config") =>
          /\ LoadOk(fs[op.dest])
          /\ read_config(fs[op.dest]) = op.config
C7_Witness ==
    /\ Succeeded /\ op.name = "save_bank"
    /\ bank.config = ConfigB
    /\ read_config(pre[op.src]) = ConfigA
    /\ LoadedBank(bank.path, fs[bank.path]).config = ConfigB

\* C8: the names of the non-configuration entries of a rewritten archive, in
\* archive order, are the names of the non-configuration entries of the source
\* archive in its order.
C8_OrderPreserved ==
    Succeeded =>
        Names(OtherEntries(fs[op.dest].members)) = Names(OtherEntries(Source))

\* C9: the archive a successful save writes holds exactly one configuration
\* entry; it is named './config.json', is the last entry, and its declared
\* size is the length of the serialized configuration, its content.
C9_OneCanonicalConfigurationEntry ==
    Succeeded =>
        LET ms == fs[op.dest].members
        IN  /\ Len(ms) >= 1
            /\ \A i \in 1..Len(ms) : IsConfigurationEntry(ms[i]) <=> i = Len(ms)
            /\ ms[Len(ms)].name = DotSlashConfigName
            /\ ms[Len(ms)].data = Dumps(SavedConfig, TRUE)
            /\ ms[Len(ms)].size = Len(ms[Len(ms)].data)
C9_Witness ==
    /\ Succeeded
    /\ Len(Source) = 2
    /\ Source[1].name = CONFIG_NAME
    /\ ~IsConfigMember(Source[2])
    /\ Len(fs[op.dest].members) = 2
    /\ fs[op.dest].members[1] = Source[2]

\* C10: save_bank_as with backup_source = True and no file at bank.path +
\* '.bak' leaves there a copy of the source archive as it was before the call,
\* whatever dest_path is.
C10_SaveAsBacksUpSource ==
    (Succeeded /\ op.name = "save_bank_as" /\ op.backup /\ ~Exists(pre[BakOf(op.src)])) =>
        fs[BakOf(op.src)] = pre[op.src]

\* C11: when save_bank_as raises, at whatever step, the file at dest_path is
\* as it was before the call (absent if it was absent) and no temporary file
\* remains (one that os.remove could not remove is not held against it here).
C11_SaveAsFailureLeavesDest ==
    (Returned /\ op.name = "save_bank_as" /\ Failed(op)) =>
        /\ fs[op.dest] = pre[op.dest]
        /\ Exists(fs[op.tmp]) => op.cleanup = "remove_failed"

\* C12: while save_bank or save_bank_as runs and when it has returned, the
\* Bank has the path, config and assets it was called with; save_bank_as
\* leaves original_config_json too, and so does a save_bank that raised.
C12_SaveChangesOnlyOriginalOnSuccess ==
    op.name \in {"save_bank", "save_bank_as"} =>
        /\ bank.path = op.before.path
        /\ bank.config = op.before.config
        /\ bank.assets = op.before.assets
        /\ (op.name = "save_bank_as" \/ Failed(op)) =>
              bank.original_config_json = op.before.original_config_json
C12_Witness ==
    /\ Succeeded /\ op.name = "save_bank"
    /\ bank.original_config_json # op.before.original_config_json
    /\ bank.original_config_json = Dumps(bank.config, FALSE)

\* A pointer in the pool, by its pieces.
Ptr(pieces) ==
    IF pieces = <<>> THEN <<>>
    ELSE LET RECURSIVE Join(_)
             Join(ps) == IF ps = <<>> THEN <<>> ELSE Head(ps) \o Join(Tail(ps))
         IN  Join(pieces)
sPresets == <<"/">> \o kPresets
sName == <<"/">> \o kName
RootPointers == {<<>>, <<"/">>}
\* The pointer with one leading '#' removed.
StripHash(pointer) == IF startswith(pointer, "#") THEN Tail(pointer) ELSE pointer

RECURSIVE Resolves(_, _)
\* The segments resolve as the specification has it: on a sequence a segment
\* must parse as a non-negative integer smaller than the length, on a mapping
\* it must be a key, and no segment applies to a scalar.
Resolves(cur, parts) ==
    \/ parts = <<>>
    \/ /\ cur.t = "seq"
       /\ int(Head(parts)).ok
       /\ int(Head(parts)).val >= 0
       /\ int(Head(parts)).val < Len(cur.v)
       /\ Resolves(cur.v[int(Head(parts)).val + 1], Tail(parts))
    \/ /\ cur.t = "map"
       /\ Head(parts) \in DOMAIN cur.v
       /\ Resolves(cur.v[Head(parts)], Tail(parts))

\* C13: for a pointer that starts with '/' (and is not the root pointer '/')
\* json_pointer_get raises KeyError whenever the segments do not resolve, a
\* negative index and one past the end included, and json_pointer_set accepts
\* the pointer exactly when json_pointer_get does.
C13_GetFailsLikeSet ==
    (pc = "set_hash" /\ startswith(op.pointer, "/") /\ op.pointer \notin RootPointers) =>
        /\ ~Resolves(op.doc, Parts(op.pointer)) => op.get.kind = "KeyError"
        /\ op.pointer = Ptr(<<sPresets, <<"/", "-", "1">>>>) => op.get.kind = "KeyError"
        /\ op.pointer = Ptr(<<sPresets, <<"/", "9">>, sName>>) => op.get.kind = "KeyError"
        /\ (op.get.kind = "ok") <=> (op.set.kind = "ok")

\* C14: for a pointer p that json_pointer_get resolves on a tree,
\* json_pointer_set(tree, p, json_pointer_get(tree, p)) leaves the tree equal
\* to what it was.
C14_SetOfGetLeavesTree ==
    (pc = "done" /\ op.get.kind = "ok") => op.set_get.val = op.doc
C14_Witness ==
    /\ pc = "done"
    /\ op.set_get.kind = "ok"
    /\ op.pointer = Ptr(<<sPresets, <<"/", "0">>, sName>>)
    /\ op.set.val # op.doc

\* C15: for every pointer p, json_pointer_get(tree, '#' + p) has the outcome
\* of json_pointer_get(tree, p) (so '#' and '#/' return the whole tree), and
\* json_pointer_set with '#' + p has the outcome it has with p (so '#' and
\* '#/' are rejected as '' and '/' are).
C15_HashPrefixIgnored ==
    pc \in {"set_get", "done"} =>
        /\ op.get_hash = op.get
        /\ op.set_hash = op.set

\* C16: a pointer other than the root pointers '' and '/' that does not start
\* with '/' once a leading '#' is removed makes json_pointer_get and
\* json_pointer_set raise ValueError; json_pointer_set raises ValueError for
\* '' and '/' too, and a call that raised it has left the tree as it was.
C16_SyntaxErrorForNonPointers ==
    pc \in {"set_hash", "set_get", "done"} =>
        /\ (op.pointer \notin RootPointers /\ ~startswith(StripHash(op.pointer), "/")) =>
              /\ op.get.kind = "ValueError"
              /\ op.set.kind = "ValueError"
        /\ op.pointer \in RootPointers => op.set.kind = "ValueError"
        /\ op.set.kind = "ValueError" => op.set.val = op.doc
C16_Witness ==
    /\ pc = "set_hash"
    /\ op.pointer = Ptr(<<<<"#">>, <<"x">>, sPresets>>)
    /\ op.get.kind = "ValueError"
    /\ op.set.kind = "ValueError"
    /\ op.doc = PointerDoc

\* C17: for text longer than one character that begins with '0' and not with
\* '0.', coerce_value returns the text itself, a string.
C17_LeadingZeroKeptAsString ==
    (pc = "done" /\ op.name = "coerce_value"
        /\ Len(op.raw) > 1 /\ op.raw[1] = "0" /\ op.raw[2] # ".") =>
        op.value = JStr(op.raw)

\* The literal a text spells, in any letter case.
Spells(raw, word) ==
    /\ Len(raw) = Len(word)
    /\ \A i \in 1..Len(word) :
          \/ raw[i] = word[i]
          \/ \E k \in 1..26 : LowerChars[k] = word[i] /\ UpperChars[k] = raw[i]
\* The text parses as an integer and has no forbidden leading zero.
IsIntegerText(raw) == int(raw).ok /\ ~LeadingZero(raw)
\* What the text gives after the literals, in the order integer, float, text.
Numeric(raw) ==
    IF IsIntegerText(raw) THEN JInt(int(raw).val)
    ELSE IF FloatParses(raw) THEN FloatOf(raw)
    ELSE JStr(raw)

\* C18 as claimed: 'true' and 'false' in any letter case give the boolean,
\* 'null' gives null, any other text gives the integer it parses as, else the
\* float it parses as, else itself; the result is no mapping and no sequence.
C18_CoercePrecedence ==
    (pc = "done" /\ op.name = "coerce_value") =>
        /\ op.value =
              IF Spells(op.raw, <<"t", "r", "u", "e">>) THEN JBool(TRUE)
              ELSE IF Spells(op.raw, <<"f", "a", "l", "s", "e">>) THEN JBool(FALSE)
              ELSE IF op.raw = <<"n", "u", "l", "l">> THEN JNull
              ELSE Numeric(op.raw)
        /\ op.value.t \notin {"map", "seq"}

\* C18 as amended: the same, with 'null' in any letter case giving null.
C18_CoercePrecedenceNullAnyCase ==
    (pc = "done" /\ op.name = "coerce_value") =>
        /\ op.value =
              IF Spells(op.raw, <<"t", "r", "u", "e">>) THEN JBool(TRUE)
              ELSE IF Spells(op.raw, <<"f", "a", "l", "s", "e">>) THEN JBool(FALSE)
              ELSE IF Spells(op.raw, <<"n", "u", "l", "l">>) THEN JNull
              ELSE Numeric(op.raw)
        /\ op.value.t \notin {"map", "seq"}
C18_Witness ==
    /\ pc = "done"
    /\ op.raw = <<"N", "U", "L", "L">>
    /\ op.value = JNull

\* The stem has the form <base>_v<NNN>: its base and its number N (the whole
\* stem and 0 when it has not).
HasVersion(stem) ==
    /\ Len(stem) >= 5
    /\ SubSeq(stem, Len(stem) - 4, Len(stem) - 3) = <<"_", "v">>
    /\ \A i \in (Len(stem) - 2)..Len(stem) : stem[i] \in Digits
BaseOf(stem) == IF HasVersion(stem) THEN SubSeq(stem, 1, Len(stem) - 5) ELSE stem
NumberOf(stem) ==
    IF HasVersion(stem)
    THEN 100 * DigitVal(stem[Len(stem) - 2]) + 10 * DigitVal(stem[Len(stem) - 1])
         + DigitVal(stem[Len(stem)])
    ELSE 0
Npb == <<".", "n", "p", "b">>

\* C19: the path _next_version_path returns has the extension of the path it
\* was called on and the stem <base>_v<K>, K being the smallest number above
\* N whose name no file of the directory has; so no file has the returned
\* name. Called on amp.npb beside amp_v001.npb it returns amp_v002.npb, and
\* called on amp_v002.npb once that exists, amp_v003.npb.
C19_NextVersionIsSmallestFree ==
    (op.name = "version" /\ op.new_path # <<>>) =>
        LET stem == SubSeq(op.called, 1, Len(op.called) - 4)
            base == BaseOf(stem)
            N == NumberOf(stem)
        IN  /\ op.new_path \notin op.before
            /\ SubSeq(op.new_path, Len(op.new_path) - 3, Len(op.new_path)) = Npb
            /\ \E K \in (N + 1)..(N + Cardinality(op.before) + 1) :
                  /\ op.new_path = VersionName(base, K, Npb)
                  /\ \A j \in (N + 1)..(K - 1) : VersionName(base, j, Npb) \in op.before
            /\ (op.called = Name(Amp) /\ op.before = {Name(Amp), VersionName(Amp, 1, Npb)})
                  => op.new_path = Name(Amp \o <<"_", "v", "0", "0", "2">>)
            /\ (op.called = VersionName(Amp, 2, Npb)
                    /\ op.before = {Name(Amp), VersionName(Amp, 1, Npb), VersionName(Amp, 2, Npb)})
                  => op.new_path = Name(Amp \o <<"_", "v", "0", "0", "3">>)
C19_Witness ==
    /\ op.name = "version"
    /\ nsaves = 2
    /\ op.called = Name(Amp \o <<"_", "v", "0", "0", "2">>)
    /\ op.before = {Name(Amp), Name(Amp \o <<"_", "v", "0", "0", "1">>),
                    Name(Amp \o <<"_", "v", "0", "0", "2">>)}
    /\ op.new_path = Name(Amp \o <<"_", "v", "0", "0", "3">>)
    /\ op.new_path \in op.files

\* C20: the assets of a bank just loaded are the descriptors (name, size,
\* kind) of the archive's entries other than the configuration entry, one for
\* each and in archive order, and a save leaves Bank.assets as it was.
C20_AssetsListOtherEntries ==
    /\ (bank # NoBank /\ nsaves = 0) =>
          LET others == OtherEntries(fs[bank.path].members)
          IN  bank.assets = [i \in 1..Len(others) |-> Asset(others[i])]
    /\ op.name \in {"save_bank", "save_bank_as"} => bank.assets = op.before.assets

\* The configuration diff_config compares bank.config with.
OldConfig == Loads(bank.original_config_json).val.v
NewConfig == bank.config.v
\* Both configurations have a 'presets' sequence.
BothPresetLists(old, new) ==
    /\ kPresets \in DOMAIN old /\ old[kPresets].t = "seq"
    /\ kPresets \in DOMAIN new /\ new[kPresets].t = "seq"
\* Index i (from 0) is in both sequences, with mappings of different names.
NameDiffers(old, new, i) ==
    /\ BothPresetLists(old, new)
    /\ i < Len(old[kPresets].v) /\ i < Len(new[kPresets].v)
    /\ old[kPresets].v[i + 1].t = "map"
    /\ new[kPresets].v[i + 1].t = "map"
    /\ ~PyEq(GetName(old[kPresets].v[i + 1]), GetName(new[kPresets].v[i + 1]))
PresetA == Preset(<<"A">>, JInt(255))
PresetB == Preset(<<"B">>, JInt(255))

\* C21: for two presets sequences that differ, changed['/presets'] is
\* recorded, as (old length, new length), exactly when the lengths differ, and
\* changed['/presets/i/name'] exactly for the i in both sequences whose
\* mappings differ in name; every other key of both sides with unequal values
\* is recorded as changed['/key'] = (old, new); nothing else is in changed;
\* keys of one side are in added or removed. [{name:A}] against
\* [{name:A},{name:B}] gives changed['/presets'] = (1, 2) and nothing for
\* '/presets/0/name'.
C21_DiffByLengthAndName ==
    (pc = "done" /\ op.name = "diff_config" /\ bank.original_config_json # <<>>) =>
        LET changed == op.diff.changed
            old == OldConfig
            new == NewConfig
            common == DOMAIN old \cap DOMAIN new
            indices == 0..MaxPresets
            lists == BothPresetLists(old, new)
        IN  /\ (lists /\ ~PyEq(old[kPresets], new[kPresets])) =>
                  /\ KeyPointer(kPresets) \in DOMAIN changed
                        <=> Len(old[kPresets].v) # Len(new[kPresets].v)
                  /\ KeyPointer(kPresets) \in DOMAIN changed =>
                        changed[KeyPointer(kPresets)]
                            = <<JInt(Len(old[kPresets].v)), JInt(Len(new[kPresets].v))>>
            /\ \A i \in indices :
                  /\ NamePointer(i) \in DOMAIN changed <=> NameDiffers(old, new, i)
                  /\ NameDiffers(old, new, i) =>
                        changed[NamePointer(i)] = <<GetName(old[kPresets].v[i + 1]),
                                                    GetName(new[kPresets].v[i + 1])>>
            /\ DOMAIN changed \subseteq
                  {KeyPointer(k) : k \in common} \cup {NamePointer(i) : i \in indices}
            /\ \A k \in common :
                  ~(k = kPresets /\ lists) =>
                      /\ KeyPointer(k) \in DOMAIN changed <=> ~PyEq(old[k], new[k])
                      /\ KeyPointer(k) \in DOMAIN changed =>
                            changed[KeyPointer(k)] = <<old[k], new[k]>>
            /\ DOMAIN op.diff.added = {KeyPointer(k) : k \in DOMAIN new \ DOMAIN old}
            /\ \A k \in DOMAIN new \ DOMAIN old : op.diff.added[KeyPointer(k)] = new[k]
            /\ DOMAIN op.diff.removed = {KeyPointer(k) : k \in DOMAIN old \ DOMAIN new}
            /\ \A k \in DOMAIN old \ DOMAIN new : op.diff.removed[KeyPointer(k)] = old[k]
            /\ (lists /\ old[kPresets].v = <<PresetA>>
                    /\ new[kPresets].v = <<PresetA, PresetB>>) =>
                  /\ changed[KeyPointer(kPresets)] = <<JInt(1), JInt(2)>>
                  /\ NamePointer(0) \notin DOMAIN changed
C21_Witness ==
    /\ pc = "done" /\ op.name = "diff_config"
    /\ bank.original_config_json = Dumps(DiffConfig(JInt(1), JList(<<PresetA, JInt(3)>>)), FALSE)
    /\ bank.config = DiffConfig(JFloat(1, 0), JList(<<PresetB>>))
    /\ DOMAIN op.diff.changed = {KeyPointer(kPresets), NamePointer(0)}
    /\ op.diff.changed[NamePointer(0)] = <<JStr(<<"A">>), JStr(<<"B">>)>>

\* main has returned or the process has exited.
Exited == pc = "exit" /\ op.name \in {"main", "replace_config"} /\ op.code # -1
\* A set or an update failed before the archive rewrite: before replace_config
\* was called, or in it while the source archive was read.
FailedBeforeRewrite ==
    /\ op.argv.cmd \in {"set", "update"}
    /\ op.code = 1
    /\ op.err # "replace_config" \/ op.raised = "build"
\* The bank file and its '.bak' sibling are as they were when main was called.
BankAndBackupUntouched ==
    /\ fs[CliBank] = pre[CliBank]
    /\ fs[BakOf(CliBank)] = pre[BakOf(CliBank)]
\* The statements of a successful set, and what the one save left behind: the
\* archive rewritten with the loaded configuration after the one assignment of
\* the coerced value, and a '.bak' (the old archive when there was none).
SetRanInOrder ==
    /\ op.trace = <<"parse_args", "NPBBank", "read_config", "coerce_value",
                    "json_pointer_set", "replace_config">>
    /\ LET loaded == read_config(pre[CliBank])
           assigned == json_pointer_set(loaded, op.argv.pointer, coerce_value(op.argv.value))
       IN  /\ assigned.kind = "ok"
           /\ fs[CliBank] = Tar(Rewrite(pre[CliBank].members, assigned.val))
    /\ Exists(fs[BakOf(CliBank)])
    /\ Exists(pre[BakOf(CliBank)]) => fs[BakOf(CliBank)] = pre[BakOf(CliBank)]
    /\ ~Exists(pre[BakOf(CliBank)]) => fs[BakOf(CliBank)] = pre[CliBank]
FrameAndOrder ==
    /\ FailedBeforeRewrite => BankAndBackupUntouched
    /\ (op.argv.cmd = "set" /\ op.code = 0) => SetRanInOrder

\* C22 as stated: main returns 0 when the subcommand completes and 1 on any
\* failure; a set or update that fails before the rewrite leaves the bank file
\* and creates no '.bak'; a successful set loads, coerces, assigns once and
\* saves once with backup, in that order.
C22_ExitOneOnAnyFailure ==
    Exited =>
        /\ op.err = "no" => op.code = 0
        /\ op.err # "no" => op.code = 1
        /\ FrameAndOrder

\* C22 (amended): main returns 0 when the subcommand completes and 1 when it
\* raises an Exception, and a command line the parser rejects ends the process
\* with status 2 before any subcommand runs; a set or update that fails before
\* the rewrite leaves the bank file and creates no '.bak'; a successful set
\* loads, coerces, assigns once and saves once with backup, in that order.
C22_ExitCodes ==
    Exited =>
        /\ op.code = 0 <=> op.err = "no"
        /\ op.code = 1 <=> op.err \notin {"no", "parse_args"}
        /\ op.code = 2 <=> op.err = "parse_args"
        /\ op.err = "parse_args" <=>
              ~(op.argv.cmd \in SubCommands /\ op.argv.given = Arity(op.argv.cmd))
        /\ op.err = "parse_args" => fs = pre /\ op.trace = <<"parse_args">>
        /\ FrameAndOrder
C22_Witness ==
    /\ Exited
    /\ op.argv.cmd = "set" /\ op.code = 0
    /\ ~Exists(pre[BakOf(CliBank)])
    /\ fs[BakOf(CliBank)] = pre[CliBank]
    /\ fs[CliBank] # pre[CliBank]

RECURSIVE Visited(_, _)
\* The nodes json_pointer_get walks through for the segments `parts`, from
\* the root cur down to the last one it reaches: a key of a mapping, the
\* position (from 0, as decimal text) in a sequence.
Visited(cur, parts) ==
    IF parts = <<>> THEN <<>>
    ELSE LET p == Head(parts)
         IN  IF cur.t = "seq" /\ int(p).ok
                   /\ int(p).val < Len(cur.v) /\ int(p).val >= 0 - Len(cur.v)
             THEN LET at == IF int(p).val < 0 THEN int(p).val + Len(cur.v) ELSE int(p).val
                  IN  <<IntRepr(at)>> \o Visited(cur.v[at + 1], Tail(parts))
             ELSE IF cur.t = "map" /\ p \in DOMAIN cur.v
             THEN <<p>> \o Visited(cur.v[p], Tail(parts))
             ELSE <<>>
\* The nodes a pointer walks through in doc (none for a text that is no pointer).
Walk(doc, pointer) ==
    IF pointer \in RootPointers \/ ~startswith(StripHash(pointer), "/") THEN <<>>
    ELSE Visited(doc, Parts(StripHash(pointer)))
IsPrefix(s, t) == Len(s) <= Len(t) /\ SubSeq(t, 1, Len(s)) = s
\* Same kind of node, and for a container the same keys or the same length.
SameShape(a, b) ==
    /\ a.t = b.t
    /\ a.t = "map" => DOMAIN a.v = DOMAIN b.v
    /\ a.t = "seq" => Len(a.v) = Len(b.v)

\* C23: after a successful json_pointer_set the pointer resolved before the
\* call (no key is created, no sequence grows); every pointer that does not
\* walk through the addressed node fails as before or resolves as before, to
\* the same value, or for a node above the addressed one to a container of the
\* same keys or length; json_pointer_get of the pointer returns the assigned
\* value; when set raises, the tree is as it was.
C23_SetChangesOnlyAddressedNode ==
    (op.name = "pointer" /\ op.set # NoResult) =>
        LET before == op.doc
            after == op.set.val
            node == Walk(before, op.pointer)
        IN  /\ op.set.kind # "ok" => after = before
            /\ op.set.kind = "ok" =>
                  /\ op.get.kind = "ok"
                  /\ json_pointer_get(after, op.pointer) = Ok(NewValue)
                  /\ \A q \in PointerPool :
                        ~IsPrefix(node, Walk(before, q)) =>
                            LET b == json_pointer_get(before, q)
                                a == json_pointer_get(after, q)
                            IN  /\ a.kind = b.kind
                                /\ b.kind = "ok" =>
                                      IF IsPrefix(Walk(before, q), node)
                                      THEN SameShape(a.val, b.val)
                                      ELSE a.val = b.val
C23_Witness ==
    /\ op.name = "pointer" /\ op.set.kind = "ok"
    /\ op.doc = PointerDoc
    /\ op.pointer = sPresets \o <<"/", "0">>
    /\ json_pointer_get(op.set.val, sPresets \o <<"/", "-", "1">>) = Ok(JInt(7))
    /\ json_pointer_get(op.set.val, sPresets \o <<"/", "0">> \o sName).kind = "KeyError"
    /\ Len(op.set.val.v[kPresets].v) = 2

\* The last action of the window was a save (running or returned).
GuiSaved == op.name \in {"save_bank", "save_bank_as"}
\* The files that differ from what they were when the last action started.
Written == {p \in DOMAIN fs : fs[p] # pre[p]}

\* C24: whatever the window did so far, its last action changed only the file
\* at the path the document had when the action started, the '.bak' sibling of
\* that path, or paths where no file was; Open and edit changed none; a Save
\* New Version changed no file that existed when it started, it left the path
\* of the document alone while it ran and when save_bank_as raised, and
\* switched it to the new file, which did not exist before, when save_bank_as
\* succeeded; once a new version of the document is saved, the archive the
\* document was opened from stays as it was then, whatever is overwritten.
C24_WindowWritesOnlyItsOwnFiles ==
    (op.name \in {"open", "edit", "save_bank", "save_bank_as"}) =>
        /\ \A p \in Written :
              \/ p = op.before.path
              \/ p = BakOf(op.before.path)
              \/ ~Exists(pre[p])
        /\ ~GuiSaved => Written = {}
        /\ op.name = "save_bank_as" =>
              /\ \A p \in Written : ~Exists(pre[p])
              /\ ~Exists(pre[op.dest])
              /\ bank.path = IF pc = "idle" /\ op.raised = "no" THEN op.dest
                             ELSE op.before.path
              /\ (pc = "idle" /\ op.raised = "no") => fs[bank.path].kind = "tar"
        /\ op.name = "save_bank" => bank.path = op.before.path
        /\ op.versioned =>
              /\ fs[op.opened] = op.original
              /\ bank.path # op.opened
C24_Witness ==
    /\ pc = "idle" /\ op.name = "save_bank" /\ op.raised = "no"
    /\ op.versioned
    /\ bank.path = NpbPath(2)
    /\ op.opened = NpbPath(0)
    /\ fs[NpbPath(2)] # pre[NpbPath(2)]
    /\ Exists(fs[BakOf(NpbPath(2))])
====
